---- MODULE Spec2Model ----
(***************************************************************************)
(* CA Review Engine: the popup controller (src/scripts/popup.js) and the   *)
(* background validator (src/background.js).                               *)
(*                                                                         *)
(* JavaScript values are kept with their type so that NaN, undefined and   *)
(* Infinity behave in comparisons as they do in the engine:                *)
(*   numbers    [t |-> "number", n |-> p, d |-> q]  the fraction p/q, q > 0, *)
(*              in lowest terms; arithmetic on them is exact               *)
(*   NaN        [t |-> "NaN"]                                              *)
(*   +-Infinity [t |-> "Infinity"], [t |-> "-Infinity"]                    *)
(*   undefined  [t |-> "undefined"],  null  [t |-> "null"]                 *)
(*   booleans   [t |-> "boolean", v |-> b]                                 *)
(* Enumerated strings (entityType, gstStatus, ids) are TLA+ strings; free  *)
(* text that the code inspects (businessNature, the turnover form field)   *)
(* is a sequence of one-character strings.                                 *)
(***************************************************************************)
EXTENDS Integers, Sequences, FiniteSets, TLC

VARIABLES
    clientProfile,   \* popup.js: this.clientProfile
    storage,         \* the extension's storage.local area, key -> value
    ui,              \* the popup's DOM state that the handlers write
    analysis,        \* last direct call of analyzeClientProfile: its argument and result
    response,        \* background.js: last request handled by messageHandler and its reply
    uploadedDocuments, \* popup.js: this.uploadedDocuments, document id -> file metadata
    reviewResults,   \* popup.js: this.reviewResults
    usageCount,      \* popup.js: this.usageCount
    timers,          \* the popup's pending setTimeout callbacks, in the order they were set
    awaiting,        \* the popup's handlers suspended at await saveStorage(...), in the order they resume
    session,         \* what the running popup read at loadData and the reports it has finalized
    channel,         \* background.js: the messages and storage reads under way and the replies sent
    clock            \* Date.now(), in minutes since 1970-01-01T00:00:00Z

\* the fields of the popup that the background script leaves alone
reviewVars == <<uploadedDocuments, reviewResults, usageCount, timers, awaiting, session>>

vars == <<clientProfile, storage, ui, analysis, response,
          uploadedDocuments, reviewResults, usageCount, timers, awaiting, session, channel,
          clock>>

----------------------------------------------------------------------------
(* Bounds of the model *)

\* turnover and contribution inputs lie within MaxDelta of each threshold
MaxDelta == 1
\* businessNature inputs carry up to MaxPad filler characters on each side
MaxPad == 1
\* stated equity, gross profit, net profit and total debit lie within
\* MaxTicks/256 of the figure that agrees with the other amounts
MaxTicks == 3
\* current assets and current liabilities are whole amounts up to MaxCurrent
MaxCurrent == 3
\* a profit and loss document lists up to MaxExpenses expense items
MaxExpenses == 3
\* a trial balance lists up to MaxAccounts accounts
MaxAccounts == 2
\* up to MaxMessages messages wait for the background script
MaxMessages == 2
\* up to MaxTimers callbacks of the popup (the setTimeout callbacks of
\* processDocuments and generateReport, and handlers suspended at a storage
\* write) are pending at a time
MaxTimers == 2
\* the storage area the daily cleanup finds holds up to MaxHeadroom counted reports
MaxHeadroom == 2

----------------------------------------------------------------------------
(* JavaScript values *)

Undefined == [t |-> "undefined"]
Null == [t |-> "null"]
NaN == [t |-> "NaN"]
PosInfinity == [t |-> "Infinity"]
NegInfinity == [t |-> "-Infinity"]
RECURSIVE GCD(_, _)
GCD(a, b) == IF b = 0 THEN a ELSE GCD(b, a % b)
AbsInt(k) == IF k < 0 THEN 0 - k ELSE k

\* the number p/q (q # 0) in lowest terms
Rat(p, q) ==
    LET g == GCD(AbsInt(p), AbsInt(q))
        sgn == IF q < 0 THEN 0 - 1 ELSE 1
    IN [t |-> "number", n |-> (sgn * p) \div g, d |-> AbsInt(q) \div g]
Num(k) == [t |-> "number", n |-> k, d |-> 1]
Bool(b) == [t |-> "boolean", v |-> b]

IsNum(x) == x.t = "number"

\* property read obj.key: undefined when the object has no such property
Get(obj, key) == IF key \in DOMAIN obj THEN obj[key] ELSE Undefined

\* ToNumber as the relational operators apply it to a non-string operand
ToNumber(x) ==
    CASE x.t = "number" -> x
      [] x.t = "Infinity" -> x
      [] x.t = "-Infinity" -> x
      [] x.t = "boolean" -> Num(IF x.v THEN 1 ELSE 0)
      [] x.t = "null" -> Num(0)
      [] OTHER -> NaN

\* a < b on two number values (false when either is NaN)
NumLess(a, b) ==
    CASE a.t = "NaN" \/ b.t = "NaN" -> FALSE
      [] a.t = "-Infinity" -> b.t # "-Infinity"
      [] a.t = "Infinity" -> FALSE
      [] b.t = "Infinity" -> TRUE
      [] b.t = "-Infinity" -> FALSE
      [] OTHER -> a.n * b.d < b.n * a.d

\* the JavaScript operators x > y and x < y
Gt(x, y) == NumLess(ToNumber(y), ToNumber(x))
Lt(x, y) == NumLess(ToNumber(x), ToNumber(y))


\* the arithmetic operators on number values
Neg(a) ==
    CASE a.t = "number" -> Rat(0 - a.n, a.d)
      [] a.t = "Infinity" -> NegInfinity
      [] a.t = "-Infinity" -> PosInfinity
      [] OTHER -> NaN

NumAdd(a, b) ==
    CASE a.t = "NaN" \/ b.t = "NaN" -> NaN
      [] a.t = "number" /\ b.t = "number" ->
            LET l == (a.d * b.d) \div GCD(a.d, b.d)
            IN Rat(a.n * (l \div a.d) + b.n * (l \div b.d), l)
      [] a.t = "number" -> b
      [] b.t = "number" -> a
      [] OTHER -> IF a.t = b.t THEN a ELSE NaN

NumMul(a, b) ==
    CASE a.t = "NaN" \/ b.t = "NaN" -> NaN
      [] a.t = "number" /\ b.t = "number" -> Rat(a.n * b.n, a.d * b.d)
      [] a.t = "number" ->
            IF a.n = 0 THEN NaN ELSE IF a.n > 0 THEN b ELSE Neg(b)
      [] b.t = "number" ->
            IF b.n = 0 THEN NaN ELSE IF b.n > 0 THEN a ELSE Neg(a)
      [] OTHER -> IF a.t = b.t THEN PosInfinity ELSE NegInfinity

NumDiv(a, b) ==
    CASE a.t = "NaN" \/ b.t = "NaN" -> NaN
      [] a.t = "number" /\ b.t = "number" ->
            IF b.n # 0 THEN Rat(a.n * b.d, a.d * b.n)
            ELSE IF a.n = 0 THEN NaN
            ELSE IF a.n > 0 THEN PosInfinity ELSE NegInfinity
      [] a.t = "number" -> Num(0)
      [] b.t = "number" -> IF b.n >= 0 THEN a ELSE Neg(a)
      [] OTHER -> NaN

\* x + y, x - y, x * y, x / y with non-string operands, and Math.abs(x)
Add(x, y) == NumAdd(ToNumber(x), ToNumber(y))
Sub(x, y) == NumAdd(ToNumber(x), Neg(ToNumber(y)))
Mul(x, y) == NumMul(ToNumber(x), ToNumber(y))
Div(x, y) == NumDiv(ToNumber(x), ToNumber(y))
MathAbs(x) ==
    LET a == ToNumber(x)
    IN CASE a.t = "number" -> Rat(AbsInt(a.n), a.d)
         [] a.t = "NaN" -> NaN
         [] OTHER -> PosInfinity

\* ToBoolean
Truthy(x) ==
    CASE x.t = "boolean" -> x.v
      [] x.t = "number" -> x.n # 0
      [] x.t = "Infinity" -> TRUE
      [] x.t = "-Infinity" -> TRUE
      [] OTHER -> FALSE

----------------------------------------------------------------------------
(* Text *)

UpperChars == <<"A","B","C","D","E","F","G","H","I","J","K","L","M",
                "N","O","P","Q","R","S","T","U","V","W","X","Y","Z">>
LowerChars == <<"a","b","c","d","e","f","g","h","i","j","k","l","m",
                "n","o","p","q","r","s","t","u","v","w","x","y","z">>
DigitChars == <<"0","1","2","3","4","5","6","7","8","9">>

LowerChar(c) ==
    IF \E i \in DOMAIN UpperChars : UpperChars[i] = c
    THEN LowerChars[CHOOSE i \in DOMAIN UpperChars : UpperChars[i] = c]
    ELSE c

\* mutant: the text compared as typed
ToLowerCaseOmitted(s) == s

\* String.prototype.toLowerCase
ToLowerCase(s) == [i \in 1..Len(s) |-> LowerChar(s[i])]

\* String.prototype.includes
Includes(s, sub) ==
    \E i \in 0..(Len(s) - Len(sub)) : SubSeq(s, i + 1, i + Len(sub)) = sub

IsDigit(c) == \E i \in DOMAIN DigitChars : DigitChars[i] = c
DigitVal(c) == (CHOOSE i \in DOMAIN DigitChars : DigitChars[i] = c) - 1

\* the decimal digits of a natural number
RECURSIVE ToDigits(_)
ToDigits(n) ==
    IF n < 10 THEN <<DigitChars[n + 1]>>
    ELSE ToDigits(n \div 10) \o <<DigitChars[(n % 10) + 1]>>

RECURSIVE DigitsValue(_)
DigitsValue(s) ==
    IF s = <<>> THEN 0 ELSE 10 * DigitsValue(SubSeq(s, 1, Len(s) - 1)) + DigitVal(s[Len(s)])

RECURSIVE DigitPrefix(_)
DigitPrefix(s) ==
    IF s # <<>> /\ IsDigit(Head(s)) THEN <<Head(s)>> \o DigitPrefix(Tail(s)) ELSE <<>>

RECURSIVE TrimStart(_)
TrimStart(s) == IF s # <<>> /\ Head(s) = " " THEN TrimStart(Tail(s)) ELSE s

\* parseFloat on the texts the model feeds it: leading blanks are skipped, an
\* optional sign and the longest run of digits are read, the rest is ignored;
\* no digit read gives NaN.  (Fractions and exponents are not among the inputs.)
ParseFloat(s) ==
    LET t == TrimStart(s)
        neg == t # <<>> /\ Head(t) = "-"
        u == IF t # <<>> /\ (Head(t) = "-" \/ Head(t) = "+") THEN Tail(t) ELSE t
        d == DigitPrefix(u)
    IN IF d = <<>> THEN NaN
       ELSE Num(IF neg THEN 0 - DigitsValue(d) ELSE DigitsValue(d))

----------------------------------------------------------------------------
(* Compliance derivation: popup.js, analyzeClientProfile and its helpers *)

LlpTurnoverThreshold == 4000000
LlpContributionThreshold == 2500000
PartnershipThreshold == 10000000
ProfessionThreshold == 5000000
BusinessThreshold == 10000000
BankStatementThreshold == 5000000
TdsThreshold == 10000000

ProfessionKeyword == <<"p","r","o","f","e","s","s","i","o","n">>

\* mutant: the public-company case dropped
IsCompanyPrivateOnly(entityType) == entityType = "private"

\* entityType === 'private' || entityType === 'public'
IsCompany(entityType) == entityType = "private" \/ entityType = "public"

\* mutant: the LLP turnover comparison made non-strict
LlpAuditNonStrict(profile) ==
    \/ Gt(Get(profile, "turnover"), Num(LlpTurnoverThreshold - 1))
    \/ Gt(Get(profile, "contribution"), Num(LlpContributionThreshold))

\* return turnover > 4000000 || profile.contribution > 2500000
LlpAudit(profile) ==
    \/ Gt(Get(profile, "turnover"), Num(LlpTurnoverThreshold))
    \/ Gt(Get(profile, "contribution"), Num(LlpContributionThreshold))

\* mutant: a partnership judged by the Section 44AB rule for its nature of business
PartnershipAuditByNature(profile) ==
    IF Includes(ToLowerCase(profile.businessNature), ProfessionKeyword)
    THEN Gt(Get(profile, "turnover"), Num(ProfessionThreshold))
    ELSE Gt(Get(profile, "turnover"), Num(BusinessThreshold))

\* return turnover > 10000000
PartnershipAudit(profile) == Gt(Get(profile, "turnover"), Num(PartnershipThreshold))

\* Tax audit under Section 44AB
TaxAudit(profile) ==
    IF Includes(ToLowerCase(profile.businessNature), ProfessionKeyword)
    THEN Gt(Get(profile, "turnover"), Num(ProfessionThreshold))
    ELSE Gt(Get(profile, "turnover"), Num(BusinessThreshold))

isAuditApplicable(profile) ==
    LET entityType == Get(profile, "entityType")
    IN IF IsCompany(entityType) THEN TRUE
       ELSE IF entityType = "llp" THEN LlpAudit(profile)
       ELSE IF entityType = "partnership" THEN PartnershipAudit(profile)
       ELSE TaxAudit(profile)

MandatoryDocuments == <<"balanceSheet", "profitLoss", "trialBalance">>

GstReturnsEntry ==
    [name |-> "GST Returns (GSTR-1, GSTR-3B)", reason |-> "GST registered entity",
     id |-> "gstReturns"]
BankStatementsEntry ==
    \* the rupee sign of the source text is written Rs.
    [name |-> "Bank Statements", reason |-> "Turnover exceeds Rs.50 lakhs",
     id |-> "bankStatements"]
PreviousYearEntry ==
    [name |-> "Previous Year Financials", reason |-> "For comparative analysis",
     id |-> "previousYear"]
AuditReportEntry ==
    [name |-> "Audit Report", reason |-> "Audit applicable", id |-> "auditReport"]

\* if (profile.gstStatus === 'registered') docs.conditional.push(...)
PushGstReturns(profile, list) ==
    IF Get(profile, "gstStatus") = "registered" THEN Append(list, GstReturnsEntry) ELSE list

\* mutant: bank statements asked for from the threshold itself
PushBankStatementsNonStrict(profile, list) ==
    IF Gt(Get(profile, "turnover"), Num(BankStatementThreshold - 1))
    THEN Append(list, BankStatementsEntry) ELSE list

\* if (profile.turnover > 5000000) docs.conditional.push(...)
PushBankStatements(profile, list) ==
    IF Gt(Get(profile, "turnover"), Num(BankStatementThreshold))
    THEN Append(list, BankStatementsEntry) ELSE list

\* if (profile.previousYearAvailable) docs.conditional.push(...)
PushPreviousYear(profile, list) ==
    IF Truthy(Get(profile, "previousYearAvailable"))
    THEN Append(list, PreviousYearEntry) ELSE list

\* if (profile.auditApplicable) docs.conditional.push(...)
PushAuditReport(profile, list) ==
    IF Truthy(Get(profile, "auditApplicable"))
    THEN Append(list, AuditReportEntry) ELSE list

\* mutant: the GST returns listed among the mandatory documents
determineRequiredDocumentsGstMandatory(profile) ==
    [mandatory |->
        IF Get(profile, "gstStatus") = "registered"
        THEN Append(MandatoryDocuments, "gstReturns") ELSE MandatoryDocuments,
     conditional |->
        PushAuditReport(profile,
            PushPreviousYear(profile,
                PushBankStatements(profile, <<>>)))]

determineRequiredDocuments(profile) ==
    [mandatory |-> MandatoryDocuments,
     conditional |->
        PushAuditReport(profile,
            PushPreviousYear(profile,
                PushBankStatements(profile,
                    PushGstReturns(profile, <<>>))))]

\* mutant: LLPs left out of the MCA filers
McaEntityTypesCompaniesOnly == {"private", "public"}

McaEntityTypes == {"private", "public", "llp"}

determineCompliance(profile) ==
    [gst |-> Bool(Get(profile, "gstStatus") = "registered"),
     incomeTax |-> Bool(TRUE),
     tds |-> Bool(Gt(Get(profile, "turnover"), Num(TdsThreshold))),
     audit |-> Get(profile, "auditApplicable"),
     mca |-> Bool(Get(profile, "entityType") \in McaEntityTypes)]

\* { ...formData } with the three derived properties set on the copy; the
\* helpers are all handed formData, not the copy
analyzeClientProfile(formData) ==
    [k \in DOMAIN formData \cup {"auditApplicable", "requiredDocuments", "complianceRequirements"} |->
        CASE k = "auditApplicable" -> Bool(isAuditApplicable(formData))
          [] k = "requiredDocuments" -> determineRequiredDocuments(formData)
          [] k = "complianceRequirements" -> determineCompliance(formData)
          [] OTHER -> formData[k]]


----------------------------------------------------------------------------
(* Inputs *)

EntityTypes ==
    {"individual", "proprietorship", "partnership", "llp", "private", "public", "other"}
GstStatuses == {"registered", "unregistered"}

Deltas == (0 - MaxDelta)..MaxDelta

\* declared turnovers: none, the end-to-end figure, and the neighbourhood of each threshold
TurnoverAmounts ==
    {0, 12000000}
    \cup {LlpTurnoverThreshold + d : d \in Deltas}
    \cup {ProfessionThreshold + d : d \in Deltas}
    \cup {BusinessThreshold + d : d \in Deltas}

ContributionAmounts == {LlpContributionThreshold + d : d \in Deltas}

RECURSIVE Filler(_)
Filler(n) == IF n = 0 THEN <<>> ELSE <<"x">> \o Filler(n - 1)
Pads == {Filler(n) : n \in 0..MaxPad}

NatureWords ==
    { <<"p","r","o","f","e","s","s","i","o","n">>,
      <<"P","r","o","f","e","s","s","i","o","n">>,
      <<"P","R","O","F","E","S","S","I","O","N">>,
      <<"p","r","o","f","e","s","s","i","o">>,
      <<"t","r","a","d","i","n","g">>,
      <<>> }

BusinessNatures == { a \o w \o b : a \in Pads, w \in NatureWords, b \in Pads }

\* what the turnover field of the form is filled with: a decimal figure or nothing
FormTurnovers ==
    {0, LlpTurnoverThreshold, ProfessionThreshold, ProfessionThreshold + 1,
     BusinessThreshold, BusinessThreshold + 1, 12000000}
TurnoverTexts == {ToDigits(n) : n \in FormTurnovers} \cup {<<>>}

FormNatures ==
    { <<"P","r","o","f","e","s","s","i","o","n">>,
      <<"t","r","a","d","i","n","g">> }

\* the fields handleProfileSubmit reads from the form
Forms ==
    [clientName : {"Acme Traders"},
     entityType : EntityTypes,
     businessNature : FormNatures,
     financialYear : {"2024-25"},
     turnover : TurnoverTexts,
     gstStatus : GstStatuses,
     accountingMethod : {"accrual"},
     previousYearAvailable : BOOLEAN]

IsoDates == {"2025-04-01T00:00:00.000Z"}

\* formData as handleProfileSubmit builds it
FormData(form, date) ==
    [clientName |-> form.clientName,
     entityType |-> form.entityType,
     businessNature |-> form.businessNature,
     financialYear |-> form.financialYear,
     turnover |-> ParseFloat(form.turnover),
     gstStatus |-> form.gstStatus,
     accountingMethod |-> form.accountingMethod,
     previousYearAvailable |-> Bool(form.previousYearAvailable),
     profileDate |-> date]

\* profiles handed to analyzeClientProfile directly: as the form gives them, or
\* carrying the optional LLP capital contribution
ProfilesWithoutContribution ==
    [clientName : {"Acme Traders"},
     entityType : EntityTypes,
     businessNature : BusinessNatures,
     financialYear : {"2024-25"},
     turnover : {Num(n) : n \in TurnoverAmounts} \cup {NaN},
     gstStatus : GstStatuses,
     accountingMethod : {"accrual"},
     previousYearAvailable : {Bool(TRUE), Bool(FALSE)},
     profileDate : IsoDates]

WithContribution(p, c) ==
    [k \in DOMAIN p \cup {"contribution"} |-> IF k = "contribution" THEN c ELSE p[k]]

AnalysisInputs ==
    ProfilesWithoutContribution
    \cup { WithContribution(p, c) :
             p \in ProfilesWithoutContribution,
             c \in {Num(n) : n \in ContributionAmounts} \cup {NaN} }

----------------------------------------------------------------------------
(* Storage and DOM helpers of the popup *)

\* The storage area keeps the JSON form of what it is handed. Of the objects
\* the popup saves, the properties named in PrimitiveKeys hold numbers,
\* booleans or undefined and those named in ObjectKeys hold objects; the
\* other properties hold strings and lists of strings, which JSON keeps
PrimitiveKeys ==
    {"usageCount", "turnover", "contribution", "previousYearAvailable", "auditApplicable",
     "gst", "incomeTax", "tds", "audit", "mca"}
ObjectKeys == {"clientProfile", "complianceRequirements"}

\* the JSON form of a number or boolean: NaN and the infinities become null
JsonPrimitive(x) == IF x.t \in {"NaN", "Infinity", "-Infinity"} THEN Null ELSE x

\* the JSON form of an object: a property whose value is undefined is left out
RECURSIVE JsonObject(_)
JsonObject(obj) ==
    LET kept == { k \in DOMAIN obj :
                    ~(k \in PrimitiveKeys \cup ObjectKeys /\ obj[k] = Undefined) }
    IN [k \in kept |-> IF k \in PrimitiveKeys THEN JsonPrimitive(obj[k])
                       ELSE IF k \in ObjectKeys THEN JsonObject(obj[k])
                       ELSE obj[k]]

\* storage.local.set(data), had it replaced the area by data
StorageSetReplacing(store, data) == JsonObject(data)

\* storage.local.set(data): the keys of data are written, the others kept
StorageSet(store, data) ==
    LET written == JsonObject(data)
    IN [k \in DOMAIN store \cup DOMAIN written |->
           IF k \in DOMAIN written THEN written[k] ELSE store[k]]

RECURSIVE Ids(_)
Ids(list) == IF list = <<>> THEN <<>> ELSE <<Head(list).id>> \o Ids(Tail(list))

\* updateUploadSection: the conditional file inputs are re-rendered only when
\* the profile has at least one conditional document
updateUploadSection(profile, dom) ==
    IF profile = Null
    THEN [dom EXCEPT !.uploadSectionShown = FALSE]
    ELSE [dom EXCEPT !.uploadSectionShown = TRUE,
                     !.conditionalInputs =
                         IF Len(profile.requiredDocuments.conditional) > 0
                         THEN Ids(profile.requiredDocuments.conditional)
                         ELSE @]

\* this.maxUsage = 99
maxUsage == 99

\* x || d
OrDefault(x, d) == IF "t" \in DOMAIN x /\ ~Truthy(x) THEN d ELSE x

\* what an element of a pane holds: what the markup gives it, what a handler
\* rendered in it, or nothing because the element was removed from the document
AsMarkup == [t |-> "markup"]
Removed == [t |-> "absent"]
Rendered(value) == [t |-> "rendered", value |-> value]

\* the panes showLoading is called on
LoadingPanes == {"review-tab", "report-tab"}

\* how the markup lays out a pane, as far as showLoading can tell:
\*   "flat"   the pane is a .tab-content element and has none below it
\*   "inner"  the pane wraps its content in a .tab-content element
\*   "spare"  the pane holds an empty .tab-content element beside its content
PaneStructures == {"flat", "inner", "spare"}

\* showLoading throws a TypeError: querySelector('.tab-content') gives null
showLoadingThrows(tabId, dom) == dom.markup.panes[tabId] = "flat"

\* showLoading when it does not throw: the .tab-content element below the
\* pane gets the loading markup in place of what it held (the loading markup
\* itself is not kept in the model)
showLoading(tabId, dom) ==
    IF dom.markup.panes[tabId] # "inner" THEN dom
    ELSE IF tabId = "review-tab"
    THEN [dom EXCEPT !.reviewContent = Removed, !.reportBtn = "absent"]
    ELSE [dom EXCEPT !.reportContent = Removed]

\* checkMandatoryDocuments, had it asked for some mandatory document
checkMandatoryDocumentsAny(documents, dom) ==
    [dom EXCEPT !.processBtn =
        IF \E i \in DOMAIN MandatoryDocuments : MandatoryDocuments[i] \in DOMAIN documents
        THEN "enabled" ELSE "disabled"]

\* checkMandatoryDocuments: required.every(doc => this.uploadedDocuments[doc])
checkMandatoryDocuments(documents, dom) ==
    [dom EXCEPT !.processBtn =
        IF \A i \in DOMAIN MandatoryDocuments : MandatoryDocuments[i] \in DOMAIN documents
        THEN "enabled" ELSE "disabled"]

\* displayReview: renders the review and enables report generation
displayReview(results, dom) ==
    IF results = Null \/ dom.reviewContent = Removed
    THEN dom
    ELSE [dom EXCEPT !.reviewContent = Rendered(results),
                     !.reportBtn = IF @ = "absent" THEN @ ELSE "enabled"]

\* displayReport: the report is rendered in the report pane
displayReport(report, dom) ==
    IF dom.reportContent = Removed THEN dom
    ELSE [dom EXCEPT !.reportContent = Rendered(report)]

updateUsageBadge(count, dom) == [dom EXCEPT !.usageBadge = count]

\* showNotification: a notification element with the message is appended to
\* the body. dom.notification is the text of the newest notification element
\* in the document; the elements shown before it leave the document before
\* it does
showNotification(message, dom) == [dom EXCEPT !.notification = message]

\* the delays of the callbacks, in milliseconds
ReviewDelay == 2000
ReportDelay == 2000
NotificationDelay == 3000
RemovalDelay == 300

\* how long after it was set a pending callback is due. A notification's is
\* the callback that removes the element: the one set for NotificationDelay
\* changes the animation of the element and sets it for RemovalDelay later
Delay(timer) ==
    CASE timer = "review" -> ReviewDelay
      [] timer = "report" -> ReportDelay
      [] timer = "notification" -> NotificationDelay + RemovalDelay

\* the pending callback at position i can be the next to run: none set
\* before it is due before it
MayFire(pending, i) == \A j \in 1..(i - 1) : Delay(pending[j]) > Delay(pending[i])

\* the pending callbacks without the one at position i
Without(pending, i) == SubSeq(pending, 1, i - 1) \o SubSeq(pending, i + 1, Len(pending))

\* the pending callbacks of processDocuments and generateReport
Callbacks(pending) == SelectSeq(pending, LAMBDA timer : timer # "notification")

\* the pending callbacks after showNotification: the removal of the new
\* element is pending, and it is the newest element from now on
NotificationTimer(pending) == Append(Callbacks(pending), "notification")

\* switchTab
switchTab(tabName, dom) == [dom EXCEPT !.activeTab = tabName]

----------------------------------------------------------------------------
(* State machine *)

NoCall == [t |-> "none"]

\* background.js initializeStorage: what a fresh installation stores
InstalledStorage ==
    [usageCount |-> Num(0), installDate |-> "2025-04-01T00:00:00.000Z", version |-> "1.0.0"]

\* Date.now() when the extension is installed, 2025-04-01T00:00:00.000Z, in
\* minutes since 1970-01-01T00:00:00Z
InstallTime == 20179 * 24 * 60

\* an object without properties
EmptyObject == [k \in {} |-> Undefined]

\* no message waits for the background script, none was answered and no
\* storage read of the background script is under way
IdleChannel == [inbox |-> <<>>, reading |-> <<>>, handled |-> <<>>, cleanup |-> <<>>]

\* the DOM as the markup gives it: the buttons, the usage badge and the
\* review and report panes are as written there until a handler sets them,
\* and no notification is shown
MarkupUi(markup) ==
    [activeTab |-> "profile", completedTabs |-> {}, uploadSectionShown |-> FALSE,
     conditionalInputs |-> <<>>, notification |-> "none",
     processBtn |-> "markup", reportBtn |-> "markup", usageBadge |-> "markup",
     reviewContent |-> AsMarkup, reportContent |-> AsMarkup, markup |-> markup]

\* what the handlers depend on in the markup: the layout of the review and
\* report panes, and whether the Process Documents and Generate Report
\* buttons carry the disabled attribute
Markups == [panes : [LoadingPanes -> PaneStructures], disabled : BOOLEAN]

\* a markup whose review and report panes hold a spare .tab-content element
\* and whose buttons are disabled until a handler enables them
SpareMarkup == [panes |-> [tabId \in LoadingPanes |-> "spare"], disabled |-> TRUE]

\* a click reaches the listener of a button that is in the document and not
\* disabled
Clickable(button, dom) ==
    \/ button = "enabled"
    \/ button = "markup" /\ ~dom.markup.disabled

\* constructor, loadData and updateUI on the storage area store: the fields
\* of the popup and its DOM when the listeners are attached
Opened(store, markup) ==
    LET profile == OrDefault(Get(store, "clientProfile"), Null)
        count == OrDefault(Get(store, "usageCount"), Num(0))
        results == OrDefault(Get(store, "reviewResults"), Null)
        badge == updateUsageBadge(count, MarkupUi(markup))
        u1 == IF profile # Null
              THEN updateUploadSection(profile,
                                       [badge EXCEPT !.completedTabs = @ \cup {"profile"}])
              ELSE badge
        u2 == IF results # Null
              THEN displayReview(results, [u1 EXCEPT !.completedTabs = @ \cup {"upload"}])
              ELSE u1
    IN [clientProfile |-> profile, usageCount |-> count, reviewResults |-> results, ui |-> u2]

\* the popup has been opened on the storage area: the constructor and init
\* have run and the listeners wait for events
PopupOpened(markup) ==
    /\ clientProfile = Opened(storage, markup).clientProfile
    /\ usageCount = Opened(storage, markup).usageCount
    /\ reviewResults = Opened(storage, markup).reviewResults
    /\ ui = Opened(storage, markup).ui
    /\ uploadedDocuments = EmptyObject
    /\ timers = <<>>
    /\ awaiting = <<>>
    /\ session = [loaded |-> Opened(storage, markup).usageCount,
                  stored |-> Get(storage, "usageCount"), finalized |-> 0]

\* the popup opened on a fresh installation
InitPopupState ==
    /\ storage = InstalledStorage
    /\ PopupOpened(SpareMarkup)
    /\ channel = IdleChannel
    /\ clock = InstallTime

Init ==
    /\ InitPopupState
    /\ analysis = NoCall
    /\ response = NoCall

\* popup.js handleProfileSubmit, up to await this.saveStorage(...): the submit
\* event of the client-profile form. The profile is set and the write to the
\* storage area is issued; the handler resumes when the write calls back
HandleProfileSubmit(form, date) ==
    /\ Len(Callbacks(timers)) + Len(awaiting) < MaxTimers
    /\ clientProfile' = analyzeClientProfile(FormData(form, date))
    /\ storage' = StorageSet(storage, [clientProfile |-> clientProfile'])
    /\ awaiting' = Append(awaiting, "profile")
    /\ UNCHANGED <<ui, uploadedDocuments, reviewResults, usageCount, timers, session,
                   analysis, response, channel, clock>>

\* handleProfileSubmit resumes after the storage write: the profile tab is
\* completed, the upload section is updated from this.clientProfile as it is
\* now, and the upload tab is shown
ProfileSaved ==
    /\ awaiting # <<>>
    /\ Head(awaiting) = "profile"
    /\ awaiting' = Tail(awaiting)
    /\ ui' = showNotification("Client profile saved successfully",
                               switchTab("upload",
                                         updateUploadSection(clientProfile,
                                             [ui EXCEPT !.completedTabs = @ \cup {"profile"}])))
    /\ timers' = NotificationTimer(timers)
    /\ UNCHANGED <<clientProfile, storage, uploadedDocuments, reviewResults, usageCount,
                   session, analysis, response, channel, clock>>

\* the tabs of the popup
Tabs == {"profile", "upload", "review", "report"}

\* the click on a tab: switchTab(e.target.dataset.tab)
SwitchTab(tabName) ==
    /\ ui' = switchTab(tabName, ui)
    /\ UNCHANGED <<clientProfile, storage, uploadedDocuments, reviewResults, usageCount,
                   timers, awaiting, session, analysis, response, channel, clock>>

\* the callbacks of the newest notification: the element is animated out
\* and then removed from the document
NotificationTimerFires ==
    /\ \E i \in DOMAIN timers : /\ timers[i] = "notification"
                                /\ MayFire(timers, i)
                                /\ timers' = Without(timers, i)
    /\ ui' = [ui EXCEPT !.notification = "none"]
    /\ UNCHANGED <<clientProfile, storage, uploadedDocuments, reviewResults, usageCount,
                   awaiting, session, analysis, response, channel, clock>>

\* the profile forms submitted in the popup: entity types of each audit rule,
\* turnover nil or above every threshold
PopupForms ==
    { f \in Forms : /\ f.entityType \in {"individual", "partnership", "private"}
                    /\ f.businessNature = <<"t","r","a","d","i","n","g">>
                    /\ f.turnover \in {ToDigits(0), ToDigits(12000000)} }

NextPopup ==
    \/ \E form \in PopupForms, date \in IsoDates : HandleProfileSubmit(form, date)
    \/ ProfileSaved
    \/ \E tabName \in Tabs : SwitchTab(tabName)
    \/ NotificationTimerFires

\* the popup session
SpecPopup == Init /\ [][NextPopup]_vars

\* a call of analyzeClientProfile on a profile of the input sets
InitAnalyze ==
    /\ InitPopupState
    /\ analysis \in [t : {"pending"}, formData : AnalysisInputs]
    /\ response = NoCall

\* the call returns (a pure method: no field of the popup is written)
AnalyzeClientProfile ==
    /\ analysis.t = "pending"
    /\ analysis' = [t |-> "returned", formData |-> analysis.formData,
                    result |-> analyzeClientProfile(analysis.formData)]
    /\ UNCHANGED <<clientProfile, storage, ui, response, channel, clock>>
    /\ UNCHANGED reviewVars

NextAnalyze == AnalyzeClientProfile

SpecAnalyze == InitAnalyze /\ [][NextAnalyze]_vars


----------------------------------------------------------------------------
(* Claims on the compliance derivation *)

Returned == analysis.t = "returned"
InProfile == analysis.formData
OutProfile == analysis.result

\* x is a number strictly above n
Exceeds(x, k) == x.t = "number" /\ x.n > k * x.d

Range(seq) == {seq[i] : i \in DOMAIN seq}

\* s contains word, whatever the case of the letters of s (word is lower case)
UpperOf(c) ==
    IF \E i \in DOMAIN LowerChars : LowerChars[i] = c
    THEN UpperChars[CHOOSE i \in DOMAIN LowerChars : LowerChars[i] = c]
    ELSE c
ContainsAnyCase(s, word) ==
    \E i \in 0..(Len(s) - Len(word)) :
        \A j \in 1..Len(word) : s[i + j] = word[j] \/ s[i + j] = UpperOf(word[j])

\* C1: a private or public company is audit-applicable whatever its turnover,
\* nature of business or contribution
C1_CompanyAlwaysAudited ==
    (Returned /\ InProfile.entityType \in {"private", "public"})
        => OutProfile.auditApplicable = Bool(TRUE)

C1_Witness ==
    /\ Returned
    /\ InProfile.entityType = "public"
    /\ InProfile.turnover = Num(0)
    /\ OutProfile.auditApplicable = Bool(TRUE)

\* C2: an LLP is audit-applicable exactly when turnover > 4,000,000 or
\* contribution > 2,500,000, both strict
C2_LlpThresholds ==
    (Returned /\ InProfile.entityType = "llp")
        => OutProfile.auditApplicable =
              Bool(\/ Exceeds(InProfile.turnover, 4000000)
                   \/ ("contribution" \in DOMAIN InProfile
                          /\ Exceeds(InProfile.contribution, 2500000)))

C2_Witness ==
    /\ Returned
    /\ InProfile.entityType = "llp"
    /\ InProfile.turnover = Num(4000000)
    /\ "contribution" \notin DOMAIN InProfile
    /\ OutProfile.auditApplicable = Bool(FALSE)

\* C3: a partnership is audit-applicable exactly when turnover > 10,000,000,
\* also when its nature of business names a profession
C3_PartnershipThreshold ==
    (Returned /\ InProfile.entityType = "partnership")
        => OutProfile.auditApplicable = Bool(Exceeds(InProfile.turnover, 10000000))

C3_Witness ==
    /\ Returned
    /\ InProfile.entityType = "partnership"
    /\ ContainsAnyCase(InProfile.businessNature, ProfessionKeyword)
    /\ InProfile.turnover = Num(5000001)
    /\ OutProfile.auditApplicable = Bool(FALSE)

\* C4: any other entity is audit-applicable exactly when turnover > 5,000,000
\* if its nature of business contains "profession" in any letter case, and
\* exactly when turnover > 10,000,000 otherwise
C4_TaxAuditThresholds ==
    (Returned /\ InProfile.entityType \notin {"private", "public", "llp", "partnership"})
        => OutProfile.auditApplicable =
              Bool(IF ContainsAnyCase(InProfile.businessNature, ProfessionKeyword)
                   THEN Exceeds(InProfile.turnover, 5000000)
                   ELSE Exceeds(InProfile.turnover, 10000000))

C4_Witness ==
    /\ Returned
    /\ InProfile.entityType = "individual"
    /\ InProfile.businessNature = <<"P","R","O","F","E","S","S","I","O","N">>
    /\ InProfile.turnover = Num(5000001)
    /\ OutProfile.auditApplicable = Bool(TRUE)

\* C5: the mandatory documents are exactly balanceSheet, profitLoss,
\* trialBalance, in that order, for every profile
C5_MandatoryTriple ==
    Returned => OutProfile.requiredDocuments.mandatory
                    = <<"balanceSheet", "profitLoss", "trialBalance">>

C5_Witness ==
    /\ Returned
    /\ InProfile.gstStatus = "registered"
    /\ InProfile.entityType = "public"
    /\ InProfile.turnover = Num(12000000)
    /\ Len(OutProfile.requiredDocuments.mandatory) = 3

ConditionalOrder == <<"gstReturns", "bankStatements", "previousYear", "auditReport">>
IsListed(set, id) == id \in set

\* C7: the conditional documents are a duplicate-free subsequence of (gstReturns,
\* bankStatements, previousYear, auditReport); gstReturns is listed iff GST
\* registered, bankStatements iff turnover > 5,000,000, previousYear iff
\* previousYearAvailable
C7_ConditionalDocuments ==
    Returned =>
        LET ids == Ids(OutProfile.requiredDocuments.conditional)
            listed == Range(ids)
        IN /\ ids = SelectSeq(ConditionalOrder, LAMBDA id : IsListed(listed, id))
           /\ ("gstReturns" \in listed) = (InProfile.gstStatus = "registered")
           /\ ("bankStatements" \in listed) = Exceeds(InProfile.turnover, 5000000)
           /\ ("previousYear" \in listed) = InProfile.previousYearAvailable.v

C7_Witness ==
    /\ Returned
    /\ InProfile.gstStatus = "registered"
    /\ InProfile.turnover = Num(5000000)
    /\ InProfile.previousYearAvailable = Bool(TRUE)
    /\ Ids(OutProfile.requiredDocuments.conditional) = <<"gstReturns", "previousYear">>

\* C9: incomeTax is always true, gst = GST registered, tds = turnover above
\* 10,000,000, mca = entity type private, public or llp
C9_ComplianceFlags ==
    Returned =>
        LET flags == OutProfile.complianceRequirements
        IN /\ flags.incomeTax = Bool(TRUE)
           /\ flags.gst = Bool(InProfile.gstStatus = "registered")
           /\ flags.tds = Bool(Exceeds(InProfile.turnover, 10000000))
           /\ flags.mca = Bool(InProfile.entityType \in {"private", "public", "llp"})

C9_Witness ==
    /\ Returned
    /\ InProfile.entityType = "llp"
    /\ InProfile.turnover = Num(10000000)
    /\ InProfile.gstStatus = "unregistered"
    /\ OutProfile.complianceRequirements.tds = Bool(FALSE)
    /\ OutProfile.complianceRequirements.mca = Bool(TRUE)

\* C6: the audit report is a conditional document of a saved profile exactly
\* when the profile is audit-applicable; the partnership with turnover
\* 12,000,000, GST registered, previous year available gets the four
\* conditional documents in order
C6_AuditReportListed ==
    clientProfile # Null =>
        LET ids == Ids(clientProfile.requiredDocuments.conditional)
        IN /\ ("auditReport" \in Range(ids)) = clientProfile.auditApplicable.v
           /\ ( /\ clientProfile.entityType = "partnership"
                /\ clientProfile.turnover = Num(12000000)
                /\ clientProfile.gstStatus = "registered"
                /\ clientProfile.previousYearAvailable = Bool(TRUE) )
              => ( /\ clientProfile.auditApplicable = Bool(TRUE)
                   /\ ids = ConditionalOrder )

\* C8: the audit flag of a saved profile equals its auditApplicable
C8_AuditFlag ==
    clientProfile # Null =>
        clientProfile.complianceRequirements.audit = clientProfile.auditApplicable


----------------------------------------------------------------------------
(* Number formatting *)

RECURSIVE Pow10(_)
Pow10(k) == IF k = 0 THEN 1 ELSE 10 * Pow10(k - 1)

\* the decimal digits of n, padded with zeros on the left to width w
RECURSIVE PadDigits(_, _)
PadDigits(n, w) ==
    IF w <= 1 /\ n < 10 THEN <<DigitChars[n + 1]>>
    ELSE PadDigits(n \div 10, w - 1) \o <<DigitChars[(n % 10) + 1]>>

RECURSIVE Pow2(_)
Pow2(k) == IF k = 0 THEN 1 ELSE 2 * Pow2(k - 1)

\* the largest t with 2^t <= n/d, for n, d > 0
RECURSIVE FloorLog2(_, _)
FloorLog2(n, d) ==
    IF n >= 2 * d THEN FloorLog2(n, 2 * d) + 1
    ELSE IF n < d THEN FloorLog2(2 * n, d) - 1
    ELSE 0

\* (x * 2^e) mod m, for 0 <= x < m
RECURSIVE MulPow2Mod(_, _, _)
MulPow2Mod(x, e, m) == IF e = 0 THEN x ELSE MulPow2Mod((2 * x) % m, e - 1, m)

\* the operator / on two doubles whose exact quotient is n/d (n, d > 0, in
\* lowest terms): the result is the double M / 2^e nearest to n/d, the one
\* with the even M on a tie, where 2^52 <= M <= 2^53. Of it: the binade t of
\* n/d, the remainder rho = n * 2^e - M * d and the low bits M mod w
RoundedQuotient(n, d, w) ==
    LET t == FloorLog2(n, d)
        R == MulPow2Mod(n % (w * d), 52 - t, w * d)
        r == R % d
        floor == (R - r) \div d
        up == 2 * r > d \/ (2 * r = d /\ floor % 2 = 1)
    IN [t |-> t,
        rho |-> IF up THEN r - d ELSE r,
        low |-> IF up THEN (floor + 1) % w ELSE floor]

\* where the magnitude of the double that x / y gives lies, for the exact
\* quotient q of the two doubles: -1 below the magnitude of q, 0 on it, 1 above
QuotientLean(q) ==
    IF q.t # "number" \/ q.n = 0 THEN 0
    ELSE LET rho == RoundedQuotient(AbsInt(q.n), q.d, 2).rho
         IN IF rho > 0 THEN 0 - 1 ELSE IF rho < 0 THEN 1 ELSE 0

\* where the magnitude of the double that (x / y) * 100 gives lies, for the
\* exact quotient q of the two doubles: -1 below the magnitude of 100 * q, 0 on
\* it, 1 above. The product 100 * M has 59 or 60 bits and is rounded to 53
PercentLean(q) ==
    IF q.t # "number" \/ q.n = 0 THEN 0
    ELSE LET n == AbsInt(q.n)
             d == q.d
             first == RoundedQuotient(n, d, 256)
             wide == IF first.t + 7 >= 0
                     THEN 100 * n - Pow2(first.t + 7) * d
                     ELSE 100 * n * Pow2(0 - first.t - 7) - d
             k == IF wide < 0 \/ (wide = 0 /\ first.rho > 0) THEN 6 ELSE 7
             R == (100 * first.low) % Pow2(k)
             odd == ((100 * first.low) % Pow2(k + 1)) >= Pow2(k)
             up == 2 * R > Pow2(k) \/ (2 * R = Pow2(k) /\ odd)
             rho == IF up THEN R - Pow2(k) ELSE R
             off == rho * d + 100 * first.rho
         IN IF off > 0 THEN 0 - 1 ELSE IF off < 0 THEN 1 ELSE 0

\* Number.prototype.toFixed(f), f >= 1, of the double with the exact value x
\* or, when lean is not 0, of the double next to x on that side: the nearest
\* multiple of 10^-f to the double, the larger in magnitude when the double
\* lies halfway, written with exactly f decimals
ToFixed(x, lean, f) ==
    CASE x.t = "NaN" -> <<"N","a","N">>
      [] x.t = "Infinity" -> <<"I","n","f","i","n","i","t","y">>
      [] x.t = "-Infinity" -> <<"-","I","n","f","i","n","i","t","y">>
      [] OTHER ->
            LET scaled == AbsInt(x.n) * Pow10(f)
                floor == scaled \div x.d
                rest == 2 * (scaled - floor * x.d)
                q == IF rest > x.d \/ (rest = x.d /\ lean >= 0) THEN floor + 1 ELSE floor
                body == PadDigits(q \div Pow10(f), 1) \o <<".">> \o PadDigits(q % Pow10(f), f)
            IN IF x.n < 0 THEN <<"-">> \o body ELSE body

\* the decimals of r/d for 0 <= r < d, d a product of twos and fives
RECURSIVE FractionDigits(_, _)
FractionDigits(r, d) ==
    IF r = 0 THEN <<>>
    ELSE <<DigitChars[((r * 10) \div d) + 1]>> \o FractionDigits((r * 10) % d, d)

\* Number::toString of a number whose decimal expansion is finite
NumberToString(x) ==
    CASE x.t = "NaN" -> <<"N","a","N">>
      [] x.t = "Infinity" -> <<"I","n","f","i","n","i","t","y">>
      [] x.t = "-Infinity" -> <<"-","I","n","f","i","n","i","t","y">>
      [] OTHER ->
            LET a == AbsInt(x.n)
                whole == ToDigits(a \div x.d)
                frac == FractionDigits(a % x.d, x.d)
                body == IF frac = <<>> THEN whole ELSE whole \o <<".">> \o frac
            IN IF x.n < 0 THEN <<"-">> \o body ELSE body

\* ToString of a value substituted into a template literal
ToStringValue(x) ==
    CASE x.t = "undefined" -> <<"u","n","d","e","f","i","n","e","d">>
      [] x.t = "null" -> <<"n","u","l","l">>
      [] x.t = "boolean" -> IF x.v THEN <<"t","r","u","e">> ELSE <<"f","a","l","s","e">>
      [] OTHER -> NumberToString(x)

\* Array.prototype.join on a list of texts
RECURSIVE Join(_, _)
Join(list, sep) ==
    IF list = <<>> THEN <<>>
    ELSE IF Len(list) = 1 THEN Head(list)
    ELSE Head(list) \o sep \o Join(Tail(list), sep)

----------------------------------------------------------------------------
(* Document validation: background.js *)

\* the tolerance literal 0.01
Tolerance == Rat(1, 100)

\* a message built from a template literal: the fixed text with a $ at each
\* substitution, and the substituted texts in order (the source's rupee sign
\* is written Rs. and its not-equal sign !=)
Message(text, args) == [text |-> text, args |-> args]

BalanceError ==
    Message("Balance Sheet does not balance: Assets != Liabilities + Equity", <<>>)

\* mutant: the difference compared without Math.abs
BalanceMismatchSigned(data) ==
    Gt(Sub(Get(data, "totalAssets"), Add(Get(data, "totalLiabilities"), Get(data, "equity"))),
       Tolerance)

\* Math.abs(data.totalAssets - (data.totalLiabilities + data.equity)) > 0.01
BalanceMismatch(data) ==
    Gt(MathAbs(Sub(Get(data, "totalAssets"),
                   Add(Get(data, "totalLiabilities"), Get(data, "equity")))),
       Tolerance)

\* data.negativeAssets && data.negativeAssets.length > 0
HasNegativeAssets(data) ==
    "negativeAssets" \in DOMAIN data /\ Len(data.negativeAssets) > 0

currentRatio(data) == Div(Get(data, "currentAssets"), Get(data, "currentLiabilities"))

\* (data.totalAssets - data.previousYear.totalAssets) / data.previousYear.totalAssets
assetQuotient(data) ==
    Div(Sub(Get(data, "totalAssets"), Get(data.previousYear, "totalAssets")),
        Get(data.previousYear, "totalAssets"))

\* ((data.totalAssets - data.previousYear.totalAssets) / data.previousYear.totalAssets) * 100
assetChange(data) == Mul(assetQuotient(data), Num(100))

validateBalanceSheet(data) ==
    LET mismatch == BalanceMismatch(data)
        w1 == IF HasNegativeAssets(data)
              THEN << Message("Negative values found in asset accounts: $",
                              <<Join(data.negativeAssets, <<",", " ">>)>>) >>
              ELSE <<>>
        w2 == IF Lt(currentRatio(data), Num(1))
              THEN << Message("Low current ratio ($): Liquidity concern",
                              <<ToFixed(currentRatio(data), QuotientLean(currentRatio(data)), 2)>>) >>
              ELSE <<>>
        i1 == IF "previousYear" \in DOMAIN data /\ Gt(MathAbs(assetChange(data)), Num(20))
              THEN << Message("Significant change in total assets: $% YoY",
                              <<ToFixed(assetChange(data), PercentLean(assetQuotient(data)), 1)>>) >>
              ELSE <<>>
    IN [valid |-> Bool(~mismatch),
        errors |-> IF mismatch THEN <<BalanceError>> ELSE <<>>,
        warnings |-> w1 \o w2,
        info |-> i1]


\* a validator that throws: the exception it throws
Throw(name, message) == [t |-> "throw", name |-> name, message |-> message]

GrossProfitError == Message("Gross Profit calculation mismatch", <<>>)
NetProfitError == Message("Net Profit calculation mismatch", <<>>)

DisallowableKeywords ==
    << <<"p","e","r","s","o","n","a","l">>,
       <<"p","e","n","a","l","t","y">>,
       <<"f","i","n","e">>,
       <<"p","o","l","i","t","i","c","a","l"," ","d","o","n","a","t","i","o","n">> >>

CashPaymentLimit == 10000

\* Math.abs(calculatedGP - data.grossProfit) > 0.01
GrossProfitMismatch(data) ==
    Gt(MathAbs(Sub(Sub(Get(data, "revenue"), Get(data, "directCosts")),
                   Get(data, "grossProfit"))),
       Tolerance)

\* the net profit check, had it started from revenue - directCosts instead
\* of the stated gross profit
NetProfitMismatchFromCalculated(data) ==
    LET calculatedGP == Sub(Get(data, "revenue"), Get(data, "directCosts"))
        calculatedNP ==
            Add(Sub(Sub(calculatedGP, Get(data, "operatingExpenses")),
                    Get(data, "otherExpenses")),
                Get(data, "otherIncome"))
    IN Gt(MathAbs(Sub(calculatedNP, Get(data, "netProfit"))), Tolerance)

\* Math.abs(calculatedNP - data.netProfit) > 0.01
NetProfitMismatch(data) ==
    LET calculatedNP ==
            Add(Sub(Sub(Get(data, "grossProfit"), Get(data, "operatingExpenses")),
                    Get(data, "otherExpenses")),
                Get(data, "otherIncome"))
    IN Gt(MathAbs(Sub(calculatedNP, Get(data, "netProfit"))), Tolerance)

IsDisallowable(expense) ==
    \E i \in DOMAIN DisallowableKeywords :
        Includes(ToLowerCase(expense.description), DisallowableKeywords[i])

\* one warning for each expense whose description holds a disallowable keyword
RECURSIVE DisallowableWarnings(_)
DisallowableWarnings(expenses) ==
    IF expenses = <<>> THEN <<>>
    ELSE (IF IsDisallowable(Head(expenses))
          THEN << Message("Potential disallowable expense: $ (Rs.$)",
                          <<Head(expenses).description,
                            ToStringValue(Get(Head(expenses), "amount"))>>) >>
          ELSE <<>>)
         \o DisallowableWarnings(Tail(expenses))

\* the cash payment test, had it counted a payment of exactly the limit
IsLargeCashPaymentNonStrict(e) ==
    Get(e, "paymentMode") = "cash" /\ ~Lt(Get(e, "amount"), Num(CashPaymentLimit))

\* e.paymentMode === 'cash' && e.amount > 10000
IsLargeCashPayment(e) ==
    Get(e, "paymentMode") = "cash" /\ Gt(Get(e, "amount"), Num(CashPaymentLimit))

validateProfitLoss(data) ==
    IF "expenses" \notin DOMAIN data
    THEN Throw("TypeError", "Cannot read properties of undefined (reading 'forEach')")
    ELSE IF \E i \in DOMAIN data.expenses : "description" \notin DOMAIN data.expenses[i]
    THEN Throw("TypeError", "Cannot read properties of undefined (reading 'toLowerCase')")
    ELSE
    LET e1 == IF GrossProfitMismatch(data) THEN <<GrossProfitError>> ELSE <<>>
        e2 == IF NetProfitMismatch(data) THEN <<NetProfitError>> ELSE <<>>
        largeCashPayments == SelectSeq(data.expenses, IsLargeCashPayment)
        w2 == IF Len(largeCashPayments) > 0
              THEN << Message("$ cash payments exceeding Rs.10,000 found - Section 40A(3) applicable",
                              <<ToDigits(Len(largeCashPayments))>>) >>
              ELSE <<>>
    IN [valid |-> Bool(TRUE),
        errors |-> e1 \o e2,
        warnings |-> DisallowableWarnings(data.expenses) \o w2,
        info |-> <<>>]

\* Math.abs(data.totalDebit - data.totalCredit) > 0.01
TallyMismatch(data) ==
    Gt(MathAbs(Sub(Get(data, "totalDebit"), Get(data, "totalCredit"))), Tolerance)

\* acc.debit > 0 && acc.credit > 0
HasBothSides(acc) == Gt(Get(acc, "debit"), Num(0)) /\ Gt(Get(acc, "credit"), Num(0))

validateTrialBalance(data) ==
    IF "accounts" \notin DOMAIN data
    THEN Throw("TypeError", "Cannot read properties of undefined (reading 'filter')")
    ELSE
    LET mismatch == TallyMismatch(data)
        bothSidesAccounts == SelectSeq(data.accounts, HasBothSides)
    IN [valid |-> Bool(~mismatch),
        errors |-> IF mismatch
                   THEN << Message("Trial Balance does not tally: Debit ($) != Credit ($)",
                                   <<ToStringValue(Get(data, "totalDebit")),
                                     ToStringValue(Get(data, "totalCredit"))>>) >>
                   ELSE <<>>,
        warnings |-> IF Len(bothSidesAccounts) > 0
                     THEN << Message("$ accounts have both debit and credit balances",
                                     <<ToDigits(Len(bothSidesAccounts))>>) >>
                     ELSE <<>>,
        info |-> <<>>]

\* the document types that have a validator
ValidatedTypes == {"balanceSheet", "profitLoss", "trialBalance"}

\* a string value that a call returns
Str(v) == [t |-> "string", v |-> v]

\* the methods validations inherits from Object.prototype that convert the
\* receiver to an object; called as validator(documentData) they have none
ReceiverMethods ==
    {"valueOf", "hasOwnProperty", "isPrototypeOf", "propertyIsEnumerable",
     "__defineGetter__", "__defineSetter__", "__lookupGetter__", "__lookupSetter__"}

\* validator(documentData) where validations[documentData.type] is a property
\* inherited from Object.prototype
InheritedValidator(documentData) ==
    IF documentData.type = "constructor" THEN documentData
    ELSE IF documentData.type = "toString" THEN Str("[object Undefined]")
    ELSE IF documentData.type = "toLocaleString"
    THEN Throw("TypeError", "Object.prototype.toLocaleString called on null or undefined")
    ELSE IF documentData.type = "__proto__"
    THEN Throw("TypeError", "validator is not a function")
    ELSE Throw("TypeError", "Cannot convert undefined or null to object")

InheritedTypes ==
    {"constructor", "toString", "toLocaleString", "__proto__"} \cup ReceiverMethods

\* validateDocument: the validator's result, or the exception thrown
validateDocument(documentData) ==
    IF "type" \notin DOMAIN documentData
    THEN Throw("Error", "Unknown document type")
    ELSE IF documentData.type = "balanceSheet" THEN validateBalanceSheet(documentData)
    ELSE IF documentData.type = "profitLoss" THEN validateProfitLoss(documentData)
    ELSE IF documentData.type = "trialBalance" THEN validateTrialBalance(documentData)
    ELSE IF documentData.type \in InheritedTypes THEN InheritedValidator(documentData)
    ELSE Throw("Error", "Unknown document type")

\* messageHandler, case 'validateDocument': what sendResponse is called with
ValidateDocumentReply(message) ==
    LET outcome == validateDocument(message.documentData)
    IN IF "t" \in DOMAIN outcome /\ outcome.t = "throw"
       THEN [success |-> FALSE, error |-> outcome.message]
       ELSE [success |-> TRUE, result |-> outcome]


----------------------------------------------------------------------------
(* Documents sent to the background validator *)

\* obj with the property key set to val
With(obj, key, val) == [k \in DOMAIN obj \cup {key} |-> IF k = key THEN val ELSE obj[k]]

\* each object of objs, and each with key set to one of vals
Optionally(objs, key, vals) == objs \cup { With(o, key, v) : o \in objs, v \in vals }

SeqsUpTo(S, n) == UNION { [1..k -> S] : k \in 0..n }

Ticks == (0 - MaxTicks)..MaxTicks

AccountNames == << <<"C","a","s","h">>, <<"D","e","b","t","o","r","s">> >>

BalanceSheetCore ==
    [type : {"balanceSheet"},
     totalLiabilities : {Num(600000)},
     equity : {Rat(400000 * 256 + k, 256) : k \in Ticks} \cup {Num(399000)},
     currentAssets : {Num(k) : k \in (0 - 1)..MaxCurrent}]

BalanceSheets ==
    Optionally(
        Optionally(
            Optionally(
                Optionally(BalanceSheetCore, "totalAssets", {Num(1000000)}),
                "currentLiabilities", {Num(k) : k \in 0..MaxCurrent}),
            "negativeAssets", {<<>>, SubSeq(AccountNames, 1, 1), AccountNames}),
        "previousYear", {[totalAssets |-> Num(k)] : k \in {0, 800000, 1000000}})

ExpenseItems ==
    { [description |-> <<"O","f","f","i","c","e"," ","r","e","n","t">>,
       amount |-> Num(5000), paymentMode |-> "cash"],
      [description |-> <<"P","e","n","a","l","t","y">>,
       amount |-> Num(15000), paymentMode |-> "cash"],
      [description |-> <<"S","a","l","a","r","y">>,
       amount |-> Num(10000), paymentMode |-> "cash"],
      [description |-> <<"R","e","f","i","n","e","r","y">>,
       amount |-> Num(20000), paymentMode |-> "bank"],
      [description |-> <<"T","r","a","v","e","l">>,
       amount |-> Num(20000), paymentMode |-> "cash"] }

ProfitLossCore ==
    [type : {"profitLoss"},
     revenue : {Num(1000)},
     directCosts : {Num(600)},
     grossProfit : {Rat(400 * 256 + k, 256) : k \in Ticks} \cup {Num(401)},
     operatingExpenses : {Num(100)},
     otherExpenses : {Num(50)},
     otherIncome : {Num(10)},
     netProfit : {Rat(260 * 256 + k, 256) : k \in Ticks} \cup {Num(261)}]

ProfitLosses == Optionally(ProfitLossCore, "expenses", SeqsUpTo(ExpenseItems, MaxExpenses))

AccountItems ==
    { [name |-> <<"C","a","s","h">>, debit |-> Num(100), credit |-> Num(0)],
      [name |-> <<"D","e","b","t","o","r","s">>, debit |-> Num(100), credit |-> Num(50)],
      [name |-> <<"B","a","n","k">>, debit |-> Num(0 - 100), credit |-> Num(50)] }

TrialBalanceCore ==
    [type : {"trialBalance"},
     totalDebit : {Rat(500000 * 256 + k, 256) : k \in Ticks} \cup {Num(500100)},
     totalCredit : {Num(500000)}]

TrialBalances == Optionally(TrialBalanceCore, "accounts", SeqsUpTo(AccountItems, MaxAccounts))

OtherDocuments ==
    { [type |-> "gstReturns"], [name |-> <<"C","a","s","h">>],
      [type |-> "constructor"], [type |-> "toString"], [type |-> "valueOf"],
      [type |-> "__proto__"] }

Documents == BalanceSheets \cup ProfitLosses \cup TrialBalances \cup OtherDocuments

ValidateMessages == [action : {"validateDocument"}, documentData : Documents]

----------------------------------------------------------------------------
(* The background script answering a validateDocument message *)

InitBackground ==
    /\ InitPopupState
    /\ analysis = NoCall
    /\ response \in [t : {"pending"}, message : ValidateMessages]

\* messageHandler, case 'validateDocument': validateDocument settles and
\* sendResponse is called
ValidateDocumentRequest ==
    /\ response.t = "pending"
    /\ response.message.action = "validateDocument"
    /\ response' = [t |-> "replied", message |-> response.message,
                    reply |-> ValidateDocumentReply(response.message)]
    /\ UNCHANGED <<clientProfile, storage, ui, analysis, channel, clock>>
    /\ UNCHANGED reviewVars

NextBackground == ValidateDocumentRequest

SpecBackground == InitBackground /\ [][NextBackground]_vars

----------------------------------------------------------------------------
(* Claims on the balance sheet validator *)

Replied == response.t = "replied"
Document == response.message.documentData
IsOfType(doc, type) == "type" \in DOMAIN doc /\ doc.type = type

\* |totalAssets - (totalLiabilities + equity)| > 1/100; no difference exists,
\* and none exceeds the tolerance, when totalAssets is not stated
OutOfBalance(doc) ==
    "totalAssets" \in DOMAIN doc /\
    LET a == doc.totalAssets
        l == doc.totalLiabilities
        e == doc.equity
        diff == a.n * l.d * e.d - l.n * a.d * e.d - e.n * a.d * l.d
    IN 100 * AbsInt(diff) > a.d * l.d * e.d

Count(seq, x) == Cardinality({i \in DOMAIN seq : seq[i] = x})

\* C10: validateBalanceSheet reports the does-not-balance error once and
\* valid = false when |totalAssets - (totalLiabilities + equity)| > 0.01, and
\* otherwise reports no such error and valid = true, whatever the other checks find
C10_BalanceIdentity ==
    (Replied /\ IsOfType(Document, "balanceSheet"))
        => /\ response.reply.success
           /\ Count(response.reply.result.errors, BalanceError)
                  = (IF OutOfBalance(Document) THEN 1 ELSE 0)
           /\ response.reply.result.valid = Bool(~OutOfBalance(Document))

C10_Witness ==
    /\ Replied
    /\ IsOfType(Document, "balanceSheet")
    /\ "totalAssets" \in DOMAIN Document
    /\ Document.totalAssets = Num(1000000)
    /\ Document.equity = Num(399000)
    /\ response.reply.success
    /\ response.reply.result.errors = <<BalanceError>>
    /\ response.reply.result.valid = Bool(FALSE)
    /\ Len(response.reply.result.warnings) = 2
    /\ Len(response.reply.result.info) = 1

----------------------------------------------------------------------------
(* Claims on the trial balance validator *)

\* |totalDebit - totalCredit| as an exact fraction
TallyGap(doc) ==
    LET d == doc.totalDebit
        c == doc.totalCredit
    IN Rat(AbsInt(d.n * c.d - c.n * d.d), d.d * c.d)

OutOfTally(doc) == 100 * TallyGap(doc).n > TallyGap(doc).d

IsTallyError(m) == m.text = "Trial Balance does not tally: Debit ($) != Credit ($)"

IsTrialBalanceWithAccounts(doc) ==
    IsOfType(doc, "trialBalance") /\ "accounts" \in DOMAIN doc

\* C11: validateTrialBalance reports the does-not-tally error exactly when
\* |totalDebit - totalCredit| > 0.01, and that error states the mismatch
\* amount |totalDebit - totalCredit| (100 for 500,100 against 500,000)
C11_TallyFinding ==
    (Replied /\ IsTrialBalanceWithAccounts(Document))
        => /\ response.reply.success
           /\ LET found == SelectSeq(response.reply.result.errors, IsTallyError)
              IN /\ Len(found) = (IF OutOfTally(Document) THEN 1 ELSE 0)
                 /\ \A i \in DOMAIN found :
                        NumberToString(TallyGap(Document)) \in Range(found[i].args)

\* an account that states a debit and a credit, both other than zero
BothNonZero(acc) == acc.debit.n # 0 /\ acc.credit.n # 0

IsBothSidesWarning(m) == m.text = "$ accounts have both debit and credit balances"

\* C12: validateTrialBalance reports one both-sides warning whose count is the
\* number of accounts with a nonzero debit and a nonzero credit, negative
\* amounts included, and no such warning when there is no such account
C12_BothSidesCount ==
    (Replied /\ IsTrialBalanceWithAccounts(Document))
        => /\ response.reply.success
           /\ LET n == Len(SelectSeq(Document.accounts, BothNonZero))
                  found == SelectSeq(response.reply.result.warnings, IsBothSidesWarning)
              IN /\ Len(found) = (IF n > 0 THEN 1 ELSE 0)
                 /\ \A i \in DOMAIN found : found[i].args = <<ToDigits(n)>>

----------------------------------------------------------------------------
(* Claims on the current ratio check *)

IsLiquidityWarning(m) == m.text = "Low current ratio ($): Liquidity concern"

\* C13: validateBalanceSheet raises no error and reports the liquidity
\* warning when currentAssets / currentLiabilities < 1, and also when
\* currentLiabilities is zero and the ratio is undefined
C13_LiquidityWarning ==
    (Replied /\ IsOfType(Document, "balanceSheet")
             /\ "currentLiabilities" \in DOMAIN Document)
        => /\ response.reply.success
           /\ LET ca == Document.currentAssets
                  cl == Document.currentLiabilities
                  found == SelectSeq(response.reply.result.warnings, IsLiquidityWarning)
              IN /\ (cl.n > 0 /\ ca.n * cl.d < cl.n * ca.d) => Len(found) = 1
                 /\ (cl.n = 0) => Len(found) = 1

----------------------------------------------------------------------------
(* Claims on the profit and loss validator *)

IsProfitLossWithExpenses(doc) ==
    IsOfType(doc, "profitLoss") /\ "expenses" \in DOMAIN doc

\* an amount in units of 1/256
InUnits(x) == x.n * (256 \div x.d)

\* |(revenue - directCosts) - grossProfit| > 1/100
GrossProfitOff(doc) ==
    100 * AbsInt(InUnits(doc.revenue) - InUnits(doc.directCosts)
                 - InUnits(doc.grossProfit)) > 256

\* |(grossProfit - operatingExpenses - otherExpenses + otherIncome) - netProfit|
\* > 1/100, with the gross profit the document states
NetProfitOff(doc) ==
    100 * AbsInt(InUnits(doc.grossProfit) - InUnits(doc.operatingExpenses)
                 - InUnits(doc.otherExpenses) + InUnits(doc.otherIncome)
                 - InUnits(doc.netProfit)) > 256

\* C14: validateProfitLoss reports the gross profit mismatch exactly when
\* |(revenue - directCosts) - grossProfit| > 0.01 and the net profit mismatch
\* exactly when |(grossProfit - operatingExpenses - otherExpenses + otherIncome)
\* - netProfit| > 0.01, computed from the stated gross profit; each is reported
\* whatever the other finds, and no other error is reported
C14_ProfitChecks ==
    (Replied /\ IsProfitLossWithExpenses(Document))
        => /\ response.reply.success
           /\ response.reply.result.errors
                  = (IF GrossProfitOff(Document) THEN <<GrossProfitError>> ELSE <<>>)
                    \o (IF NetProfitOff(Document) THEN <<NetProfitError>> ELSE <<>>)

\* the stated gross profit is off by 1 and the net profit follows from it:
\* only the gross profit mismatch is reported
C14_Witness ==
    /\ Replied
    /\ IsProfitLossWithExpenses(Document)
    /\ Document.grossProfit = Num(401)
    /\ Document.netProfit = Num(261)
    /\ response.reply.success
    /\ response.reply.result.errors = <<GrossProfitError>>

IsCashWarning(m) ==
    m.text = "$ cash payments exceeding Rs.10,000 found - Section 40A(3) applicable"

\* a cash item of more than 10,000
OverLimitInCash(e) == e.paymentMode = "cash" /\ e.amount.n > 10000 * e.amount.d

\* C15: validateProfitLoss reports exactly one cash payment warning, with the
\* number of cash items above 10,000 as its count, when there is such an item,
\* and none when there is not; cash items of exactly 10,000 and items paid
\* otherwise are not counted
C15_CashPayments ==
    (Replied /\ IsProfitLossWithExpenses(Document))
        => /\ response.reply.success
           /\ LET n == Len(SelectSeq(Document.expenses, OverLimitInCash))
                  found == SelectSeq(response.reply.result.warnings, IsCashWarning)
              IN /\ Len(found) = (IF n >= 1 THEN 1 ELSE 0)
                 /\ \A i \in DOMAIN found : found[i].args = <<ToDigits(n)>>

\* cash items of 5,000, 15,000 and 20,000: one warning with count 2
C15_Witness ==
    /\ Replied
    /\ IsProfitLossWithExpenses(Document)
    /\ Len(Document.expenses) = 3
    /\ Document.expenses[1].amount = Num(5000)
    /\ Document.expenses[2].amount = Num(15000)
    /\ Document.expenses[3].amount = Num(20000)
    /\ \A i \in 1..3 : Document.expenses[i].paymentMode = "cash"
    /\ response.reply.success
    /\ Len(SelectSeq(response.reply.result.warnings, IsCashWarning)) = 1
    /\ \E i \in DOMAIN response.reply.result.warnings :
           /\ IsCashWarning(response.reply.result.warnings[i])
           /\ response.reply.result.warnings[i].args = <<ToDigits(2)>>

----------------------------------------------------------------------------
(* Claims on documents that lack an amount *)

\* the numeric aggregates each kind of document has to state
RequiredAggregates(type) ==
    IF type = "balanceSheet"
    THEN {"totalAssets", "totalLiabilities", "equity", "currentAssets", "currentLiabilities"}
    ELSE IF type = "profitLoss"
    THEN {"revenue", "directCosts", "grossProfit", "operatingExpenses",
          "otherExpenses", "otherIncome", "netProfit"}
    ELSE {"totalDebit", "totalCredit"}

\* an aggregate the document does not state, or states as something other
\* than a finite number
LacksAggregate(doc) ==
    \E f \in RequiredAggregates(doc.type) : f \notin DOMAIN doc \/ doc[f].t # "number"

\* C17: a document of a validated type that lacks a required numeric aggregate
\* is answered with an error, never with a result
C17_InvalidDocumentData ==
    (Replied /\ "type" \in DOMAIN Document /\ Document.type \in ValidatedTypes
             /\ LacksAggregate(Document))
        => ~response.reply.success

----------------------------------------------------------------------------
(* The background script answering a series of messages *)

\* const maxUsage = 99 of checkUsageLimit
checkUsageLimitMax == 99

\* background.js checkUsageLimit
checkUsageLimit(store) ==
    LET count == IF Truthy(Get(store, "usageCount")) THEN store.usageCount ELSE Num(0)
    IN [current |-> count,
        max |-> Num(checkUsageLimitMax),
        remaining |-> Sub(Num(checkUsageLimitMax), count),
        exceeded |-> Bool(~Lt(count, Num(checkUsageLimitMax)))]

\* storage.local.get(keys): the properties of the area among keys
StorageGet(store, keys) == [k \in DOMAIN store \cap keys |-> store[k]]

\* the continuation of checkUsageLimit(...).then(sendResponse): the reply
\* built from what the storage read gave
UsageLimitReply(data) == [success |-> TRUE, result |-> checkUsageLimit(data)]

\* the sources fetchStatutoryData has an address for
approvedSources == {"income-tax", "gst", "mca", "icai"}

\* the table of getStatutoryDataSimulated
StatutoryData ==
    "income-tax" :>
        ("tax-audit-threshold" :>
            [business |-> Num(10000000), profession |-> Num(5000000),
             presumptive44AD |-> Num(20000000), lastUpdated |-> "2024-04-01"]
         @@ "itr-due-dates" :>
            [nonAudit |-> "2025-07-31", audit |-> "2025-10-31",
             transferPricing |-> "2025-11-30"]
         @@ "tds-rates" :>
            [salary |-> "30% above ₹10L", contractorIndividual |-> "1%",
             contractorCompany |-> "2%", professionalFees |-> "10%", rent |-> "10%"])
    @@ "gst" :>
        ("registration-threshold" :>
            [goods |-> Num(4000000), services |-> Num(2000000),
             specialCategory |-> Num(1000000), lastUpdated |-> "2024-04-01"]
         @@ "gst-rates" :>
            ("nil" :> "Essential items" @@ "5%" :> "Common use items"
             @@ "12%" :> "Standard items" @@ "18%" :> "Most goods and services"
             @@ "28%" :> "Luxury and sin goods")
         @@ "return-types" :>
            ("GSTR-1" :> "Outward supplies" @@ "GSTR-3B" :> "Summary return"
             @@ "GSTR-9" :> "Annual return" @@ "GSTR-9C" :> "Reconciliation statement"))
    @@ "mca" :>
        ("company-filings" :>
            ("Form AOC-4" :> "Financial statements - Annual" @@ "Form MGT-7" :> "Annual return"
             @@ "Form ADT-1" :> "Appointment of auditor" @@ "Form DIR-3 KYC" :> "Director KYC")
         @@ "llp-filings" :>
            ("Form 8" :> "Statement of account - Annual" @@ "Form 11" :> "Annual return"))

\* the property that an object literal inherits from Object.prototype under name
Inherited(name) == [t |-> "inherited", name |-> name]

\* getStatutoryDataSimulated: data[source] || {}
getStatutoryDataSimulated(source) ==
    IF source \in DOMAIN StatutoryData THEN StatutoryData[source]
    ELSE IF source \in InheritedTypes THEN Inherited(source)
    ELSE EmptyObject

\* fetchStatutoryData: the data of an approved source, or the exception
\* thrown; approvedSources[source] also finds what the object inherits
fetchStatutoryData(source) ==
    IF source \in approvedSources \cup InheritedTypes
    THEN getStatutoryDataSimulated(source)
    ELSE Throw("Error", "Unauthorized data source")

\* messageHandler, case 'fetchStatutoryData': what sendResponse is called with
FetchStatutoryDataReply(message) ==
    LET outcome == IF "source" \in DOMAIN message
                   THEN fetchStatutoryData(message.source)
                   ELSE Throw("Error", "Unauthorized data source")
    IN IF "t" \in DOMAIN outcome /\ outcome.t = "throw"
       THEN [success |-> FALSE, error |-> outcome.message]
       ELSE [success |-> TRUE, data |-> outcome]

\* messageHandler: what sendResponse is called with, data being what the
\* storage read of checkUsageLimit gave
messageHandler(message, data) ==
    IF message.action = "fetchStatutoryData" THEN FetchStatutoryDataReply(message)
    ELSE IF message.action = "validateDocument" THEN ValidateDocumentReply(message)
    ELSE IF message.action = "checkUsageLimit" THEN UsageLimitReply(data)
    ELSE [success |-> FALSE, error |-> "Unknown action"]

\* a balance sheet that balances, a trial balance that does not tally, and
\* a profit and loss statement with a cash payment above the limit
SampleDocuments ==
    { [type |-> "balanceSheet", totalAssets |-> Num(1000000),
       totalLiabilities |-> Num(600000), equity |-> Num(400000),
       currentAssets |-> Num(3), currentLiabilities |-> Num(2)],
      [type |-> "trialBalance", totalDebit |-> Num(500100),
       totalCredit |-> Num(500000), accounts |-> <<>>],
      [type |-> "profitLoss", revenue |-> Num(1000), directCosts |-> Num(600),
       grossProfit |-> Num(400), operatingExpenses |-> Num(100),
       otherExpenses |-> Num(50), otherIncome |-> Num(10), netProfit |-> Num(260),
       expenses |-> << [description |-> <<"T","r","a","v","e","l">>,
                        amount |-> Num(20000), paymentMode |-> "cash"] >>] }

\* the sources asked for: those that have data, one that is approved and has
\* none, one that is not approved, and one that is a property of
\* Object.prototype
StatutorySources == {"income-tax", "gst", "mca", "icai", "epfo", "constructor"}

Messages ==
    [action : {"validateDocument"}, documentData : SampleDocuments \cup OtherDocuments]
    \cup [action : {"fetchStatutoryData"}, source : StatutorySources]
    \cup {[action |-> "checkUsageLimit"], [action |-> "ping"]}

\* the usage counts the storage area holds when the messages arrive
MessageStorages ==
    { With(InstalledStorage, "usageCount", Num(k)) :
          k \in {0, checkUsageLimitMax - 1, checkUsageLimitMax} }

InitMessages ==
    /\ storage \in MessageStorages
    /\ PopupOpened(SpareMarkup)
    /\ analysis = NoCall
    /\ response = NoCall
    /\ channel \in [inbox : SeqsUpTo(Messages, MaxMessages),
                    reading : {<<>>}, handled : {<<>>}, cleanup : {<<>>}]
    /\ clock = InstallTime

\* the runtime delivers the next message and messageHandler runs. For
\* checkUsageLimit it asks the storage area for usageCount and returns to the
\* event loop; for the other actions the promise it built settles (neither
\* fetchStatutoryData nor validateDocument awaits anything) and sendResponse
\* is called before any other task
HandleMessage ==
    /\ channel.inbox # <<>>
    /\ LET message == Head(channel.inbox)
       IN channel' =
            IF message.action = "checkUsageLimit"
            THEN [channel EXCEPT
                     !.inbox = Tail(@),
                     !.reading = Append(@, [message |-> message,
                                            data |-> StorageGet(storage, {"usageCount"})])]
            ELSE [channel EXCEPT
                     !.inbox = Tail(@),
                     !.handled = Append(@, [message |-> message,
                                            reply |-> messageHandler(message, EmptyObject)])]
    /\ UNCHANGED <<clientProfile, storage, ui, analysis, response, clock>>
    /\ UNCHANGED reviewVars

\* the storage read of the oldest waiting checkUsageLimit returns: the rest
\* of checkUsageLimit runs and sendResponse is called
UsageReadReturns ==
    /\ channel.reading # <<>>
    /\ channel' = [channel EXCEPT
                      !.reading = Tail(@),
                      !.handled = Append(@, [message |-> Head(channel.reading).message,
                                             reply |-> UsageLimitReply(Head(channel.reading).data)])]
    /\ UNCHANGED <<clientProfile, storage, ui, analysis, response, clock>>
    /\ UNCHANGED reviewVars

NextMessages == HandleMessage \/ UsageReadReturns

SpecMessages == InitMessages /\ [][NextMessages]_vars

----------------------------------------------------------------------------
(* Claims on unknown document types *)

HasValidatedType(doc) == "type" \in DOMAIN doc /\ doc.type \in ValidatedTypes

\* C16: a validateDocument request whose document type is none of
\* balanceSheet, profitLoss, trialBalance is answered {success: false} with
\* the unknown-document-type error, and every other validateDocument request,
\* handled before or after it, gets the reply it gets when handled alone
C16_UnknownTypeConfined ==
    \A i \in DOMAIN channel.handled :
        LET h == channel.handled[i]
        IN h.message.action = "validateDocument"
              => IF HasValidatedType(h.message.documentData)
                 THEN h.reply.success /\ h.reply = ValidateDocumentReply(h.message)
                 ELSE h.reply = [success |-> FALSE, error |-> "Unknown document type"]

----------------------------------------------------------------------------
(* The review that processDocuments builds *)

\* one line of a review section; the icons of the source are written
\* "ok", "warn" and "fail", the rupee sign Rs.
Item(type, icon, text) == [type |-> type, icon |-> icon, text |-> text]

validateStructure ==
    [title |-> "Structural Validation",
     items |-> <<
        Item("normal", "ok", "Balance Sheet equation verified: Assets = Liabilities + Capital"),
        Item("normal", "ok", "Trial Balance totals match"),
        Item("clarification", "warn",
             "Significant increase in current liabilities (35% YoY) - requires explanation"),
        Item("normal", "ok", "No negative balances found in asset accounts") >>]

reviewProfitLoss ==
    [title |-> "Profit & Loss Review",
     items |-> <<
        Item("normal", "ok", "Gross Profit Margin: 28.5% (Previous Year: 26.8%)"),
        Item("high-risk", "fail",
             "Personal expenses identified: Vehicle expenses Rs.2,50,000 - May require disallowance"),
        Item("clarification", "warn",
             "Cash expenses exceeding Rs.10,000 found - Section 40A(3) applicability"),
        Item("normal", "ok", "Depreciation calculated as per Companies Act rates") >>]

calculateRatios ==
    [title |-> "Ratio Analysis",
     items |-> <<
        Item("normal", "ok", "Current Ratio: 2.1 (Industry Benchmark: 1.5-2.0)"),
        Item("normal", "ok", "Debt-Equity Ratio: 0.8 (Previous Year: 0.9) - Improved"),
        Item("clarification", "warn",
             "Debtor Days: 85 days (Industry: 45-60 days) - Collection period high"),
        Item("normal", "ok", "Net Profit Margin: 12.3% (Previous Year: 10.5%)") >>]

reviewGST ==
    [title |-> "GST vs Books Reconciliation",
     items |-> <<
        Item("high-risk", "fail",
             "Turnover mismatch: Books Rs.1,25,00,000 vs GSTR-3B Rs.1,22,50,000 - Difference of Rs.2,50,000"),
        Item("clarification", "warn",
             "ITC claimed in books does not match GSTR-2B - Requires reconciliation"),
        Item("normal", "ok", "GST returns filed on time for all months") >>]

\* popup.js checkCompliance, on this.clientProfile
checkCompliance(profile) ==
    LET audited == Truthy(Get(profile, "auditApplicable"))
        flags == profile.complianceRequirements
    IN [title |-> "Compliance Status",
        items |->
            << Item("normal", "ok",
                    IF audited THEN "Income Tax: ITR filing applicable - Audit case"
                    ELSE "Income Tax: ITR filing applicable - Non-audit case") >>
            \o (IF Truthy(Get(flags, "gst"))
                THEN << Item("normal", "ok",
                             "GST: Registration active, monthly/quarterly filing required") >>
                ELSE <<>>)
            \o (IF Truthy(Get(flags, "audit"))
                THEN << Item("clarification", "warn",
                             IF audited
                             THEN "Audit: Applicable - Verify applicability based on actual figures"
                             ELSE "Audit: Not applicable - Verify applicability based on actual figures") >>
                ELSE <<>>)
            \o (IF Truthy(Get(flags, "mca"))
                THEN << Item("normal", "ok", "MCA: Annual filing requirements applicable") >>
                ELSE <<>>)]

\* a property of review.sections: its key and the section assigned to it
Section(key, section) == [key |-> key, section |-> section]

\* the GST section is added when gstStatus === 'registered'
GstSections(profile) ==
    IF Get(profile, "gstStatus") = "registered"
    THEN << Section("gstReview", reviewGST) >>
    ELSE <<>>

\* the review, had the GST section been added for every profile
performReviewGstAlways(profile, now) ==
    [timestamp |-> now,
     clientName |-> Get(profile, "clientName"),
     financialYear |-> Get(profile, "financialYear"),
     sections |-> << Section("structuralValidation", validateStructure),
                     Section("profitLossReview", reviewProfitLoss),
                     Section("ratioAnalysis", calculateRatios),
                     Section("gstReview", reviewGST),
                     Section("compliance", checkCompliance(profile)) >>]

\* popup.js performReview, on this.clientProfile; sections lists the
\* properties of review.sections in the order they are assigned, which is
\* the order Object.values gives them in
performReview(profile, now) ==
    [timestamp |-> now,
     clientName |-> Get(profile, "clientName"),
     financialYear |-> Get(profile, "financialYear"),
     sections |-> << Section("structuralValidation", validateStructure),
                     Section("profitLossReview", reviewProfitLoss),
                     Section("ratioAnalysis", calculateRatios) >>
                  \o GstSections(profile)
                  \o << Section("compliance", checkCompliance(profile)) >>]

----------------------------------------------------------------------------
(* The report that generateReport creates *)

\* now.toLocaleDateString('en-IN') of the dates of IsoDates, in a time zone
\* at or east of UTC
LocaleDate(now) == IF now = "2025-04-01T00:00:00.000Z" THEN "1/4/2025" ELSE "Invalid Date"

\* popup.js createReport, on this.clientProfile
createReport(profile, now) ==
    [title |-> "Chartered Accountant Review Report",
     clientName |-> Get(profile, "clientName"),
     financialYear |-> Get(profile, "financialYear"),
     reportDate |-> LocaleDate(now),
     sections |-> <<
        [title |-> "1. Executive Summary",
         content |-> Message("This report presents a rule-based review of financial documents for $ for the financial year $. The review is based on statutory requirements, accounting standards, and tax provisions.",
                             <<Get(profile, "clientName"), Get(profile, "financialYear")>>)],
        [title |-> "2. Key Observations",
         points |-> << "Balance sheet structurally verified with no mathematical errors",
                       "Gross profit margin shows improvement from previous year",
                       "GST turnover mismatch identified requiring reconciliation",
                       "Debtor collection period exceeds industry standards" >>],
        [title |-> "3. Items Requiring Clarification",
         points |-> << "Significant increase in current liabilities (35% YoY)",
                       "Personal vehicle expenses requiring disallowance computation",
                       "Cash expenses exceeding statutory limits",
                       "ITC reconciliation with GSTR-2B pending" >>],
        [title |-> "4. High-Risk Areas",
         points |-> << "GST turnover mismatch of Rs.2,50,000",
                       "Potential Section 40A(3) disallowance on cash payments",
                       "Personal expense disallowance may impact tax liability" >>],
        [title |-> "5. Compliance Status",
         points |-> << IF Truthy(Get(profile, "auditApplicable"))
                       THEN "Tax Audit: Applicable" ELSE "Tax Audit: Not Applicable",
                       IF Get(profile, "gstStatus") = "registered"
                       THEN "GST Filing: Regular" ELSE "GST Filing: Not Applicable",
                       "Income Tax Return: Filing required",
                       IF Truthy(Get(profile.complianceRequirements, "mca"))
                       THEN "MCA Filings: Applicable" ELSE "MCA Filings: Not Applicable" >>],
        [title |-> "6. Next Steps",
         points |-> << "Obtain clarifications on flagged items",
                       "Reconcile GST returns with books of accounts",
                       "Compute disallowances under Income Tax Act",
                       "Prepare tax audit report if applicable",
                       "File returns within statutory due dates" >>] >>,
     disclaimer |-> "This report is based on rule-based review and publicly available statutory information. Final decisions must be taken by a qualified Chartered Accountant. This report does not constitute audit, assurance, or legal opinion."]

----------------------------------------------------------------------------
(* The popup session: profile, uploads, review, reports *)

\* the files the user picks: their metadata
StatementFile ==
    [name |-> "statement.pdf", size |-> 1024, type |-> "application/pdf", lastModified |-> 0]
RevisedFile ==
    [name |-> "revised.xlsx", size |-> 2048,
     type |-> "application/vnd.openxmlformats-officedocument.spreadsheetml.sheet",
     lastModified |-> 1]

\* the ids of the file inputs: the mandatory and the conditional documents
FileInputs ==
    {"balanceSheet", "profitLoss", "trialBalance",
     "gstReturns", "bankStatements", "previousYear", "auditReport"}

\* the selections made while documents are uploaded: the statement for any
\* file input, and a revised balance sheet
Selections ==
    [id : FileInputs, file : {StatementFile}]
    \cup {[id |-> "balanceSheet", file |-> RevisedFile]}

\* the selections made in a session that goes on to the review and the
\* report: the statement for each mandatory document
SessionSelections == { s \in Selections : /\ s.file = StatementFile
                                          /\ \E i \in DOMAIN MandatoryDocuments :
                                                 MandatoryDocuments[i] = s.id }

\* the profile forms submitted in a session: an individual not registered
\* under GST and a private company registered under it
SessionForms ==
    { f \in Forms : /\ <<f.entityType, f.gstStatus>>
                           \in {<<"individual", "unregistered">>,
                                <<"private", "registered">>}
                    /\ f.businessNature = <<"t","r","a","d","i","n","g">>
                    /\ f.turnover = ToDigits(0)
                    /\ ~f.previousYearAvailable }

\* the storage area when the first session starts: the installation's, one
\* report below the usage limit
SessionStorages ==
    { With(InstalledStorage, "usageCount", Num(maxUsage - 1)) }

\* a markup with the given layout of the review pane and of the report pane
Markup(review, report, disabled) ==
    [panes |-> [tabId \in LoadingPanes |-> IF tabId = "review-tab" THEN review ELSE report],
     disabled |-> disabled]

\* the markups of the sessions: the review and report panes each with a spare
\* .tab-content element, each wrapping its content in one, and each flat, the
\* buttons disabled until a handler enables them; and the flat layout with
\* the buttons enabled from the start
SessionMarkups ==
    { Markup("spare", "spare", TRUE), Markup("inner", "inner", TRUE),
      Markup("flat", "flat", TRUE), Markup("flat", "flat", FALSE) }

\* the popup is opened: constructor, init
InitSession ==
    /\ storage \in SessionStorages
    /\ \E markup \in SessionMarkups : PopupOpened(markup)
    /\ analysis = NoCall
    /\ response = NoCall
    /\ channel = IdleChannel
    /\ clock = InstallTime

\* the popup is closed and opened again: the fields and pending callbacks of
\* the closed popup are gone, the new one loads from storage
ReopenPopup ==
    /\ clientProfile' = Opened(storage, ui.markup).clientProfile
    /\ usageCount' = Opened(storage, ui.markup).usageCount
    /\ reviewResults' = Opened(storage, ui.markup).reviewResults
    /\ ui' = Opened(storage, ui.markup).ui
    /\ uploadedDocuments' = EmptyObject
    /\ timers' = <<>>
    /\ awaiting' = <<>>
    /\ session' = [loaded |-> Opened(storage, ui.markup).usageCount,
                   stored |-> Get(storage, "usageCount"), finalized |-> 0]
    /\ UNCHANGED <<storage, analysis, response, channel, clock>>

\* handleFileSelect with a file chosen, on a file input that has a listener
HandleFileSelect(documentType, file) ==
    /\ \/ \E i \in DOMAIN MandatoryDocuments : MandatoryDocuments[i] = documentType
       \/ \E i \in DOMAIN ui.conditionalInputs : ui.conditionalInputs[i] = documentType
    /\ uploadedDocuments' = With(uploadedDocuments, documentType, file)
    /\ ui' = checkMandatoryDocuments(uploadedDocuments', ui)
    /\ UNCHANGED <<clientProfile, storage, reviewResults, usageCount, timers, awaiting,
                   session, analysis, response, channel, clock>>

\* processDocuments: the click on Process Documents, which a disabled button
\* does not take. Past the usage check showLoading runs, and the callback is
\* scheduled unless showLoading threw
ProcessDocuments ==
    /\ Clickable(ui.processBtn, ui)
    /\ IF ~Lt(usageCount, Num(maxUsage))
       THEN /\ ui' = showNotification("Usage limit reached (99/99)", ui)
            /\ timers' = NotificationTimer(timers)
       ELSE IF showLoadingThrows("review-tab", ui)
       THEN UNCHANGED <<ui, timers>>
       ELSE /\ Len(Callbacks(timers)) + Len(awaiting) < MaxTimers
            /\ ui' = showLoading("review-tab", ui)
            /\ timers' = Append(timers, "review")
    /\ UNCHANGED <<clientProfile, storage, uploadedDocuments, reviewResults, usageCount,
                   awaiting, session, analysis, response, channel, clock>>

\* the callback processDocuments scheduled runs up to await
\* this.saveStorage(...): the review is built and the write issued;
\* performReview throws when there is no client profile and the callback ends
\* there
ReviewTimerFires(now) ==
    /\ \E i \in DOMAIN timers : /\ timers[i] = "review"
                                /\ MayFire(timers, i)
                                /\ timers' = Without(timers, i)
    /\ IF clientProfile = Null
       THEN UNCHANGED <<reviewResults, storage, awaiting>>
       ELSE /\ reviewResults' = performReview(clientProfile, now)
            /\ storage' = StorageSet(storage, [reviewResults |-> reviewResults'])
            /\ awaiting' = Append(awaiting, "review")
    /\ UNCHANGED <<clientProfile, ui, uploadedDocuments, usageCount, session,
                   analysis, response, channel, clock>>

\* the callback of processDocuments resumes after the storage write:
\* this.reviewResults as it is now is displayed, the upload tab is completed
\* and the review tab shown
ReviewSaved ==
    /\ awaiting # <<>>
    /\ Head(awaiting) = "review"
    /\ awaiting' = Tail(awaiting)
    /\ ui' = showNotification("Documents processed successfully",
                               switchTab("review",
                                         [displayReview(reviewResults, ui) EXCEPT
                                             !.completedTabs = @ \cup {"upload"}]))
    /\ timers' = NotificationTimer(timers)
    /\ UNCHANGED <<clientProfile, storage, uploadedDocuments, reviewResults, usageCount,
                   session, analysis, response, channel, clock>>

\* generateReport: the click on Generate Report, while the button is in the
\* document. Past the usage check showLoading runs, and the callback is
\* scheduled unless showLoading threw
GenerateReport ==
    /\ Clickable(ui.reportBtn, ui)
    /\ IF ~Lt(usageCount, Num(maxUsage))
       THEN /\ ui' = showNotification("Usage limit reached (99/99)", ui)
            /\ timers' = NotificationTimer(timers)
       ELSE IF showLoadingThrows("report-tab", ui)
       THEN UNCHANGED <<ui, timers>>
       ELSE /\ Len(Callbacks(timers)) + Len(awaiting) < MaxTimers
            /\ ui' = showLoading("report-tab", ui)
            /\ timers' = Append(timers, "report")
    /\ UNCHANGED <<clientProfile, storage, uploadedDocuments, reviewResults, usageCount,
                   awaiting, session, analysis, response, channel, clock>>

\* the callback generateReport scheduled runs up to await
\* this.saveStorage(...): the report is created and displayed, then counted
\* and the write of the count issued; createReport throws when there is no
\* client profile and the callback ends there
ReportTimerFires(now) ==
    /\ \E i \in DOMAIN timers : /\ timers[i] = "report"
                                /\ MayFire(timers, i)
                                /\ timers' = Without(timers, i)
    /\ IF clientProfile = Null
       THEN UNCHANGED <<usageCount, storage, ui, session, awaiting>>
       ELSE /\ ui' = displayReport(createReport(clientProfile, now), ui)
            /\ usageCount' = Add(usageCount, Num(1))
            /\ storage' = StorageSet(storage, [usageCount |-> usageCount'])
            /\ session' = [session EXCEPT !.finalized = @ + 1]
            /\ awaiting' = Append(awaiting, "report")
    /\ UNCHANGED <<clientProfile, uploadedDocuments, reviewResults,
                   analysis, response, channel, clock>>

\* the callback of generateReport resumes after the storage write: the badge
\* shows this.usageCount as it is now and the review tab is completed
ReportSaved ==
    /\ awaiting # <<>>
    /\ Head(awaiting) = "report"
    /\ awaiting' = Tail(awaiting)
    /\ ui' = showNotification("Report generated successfully",
                               [updateUsageBadge(usageCount, ui) EXCEPT
                                   !.completedTabs = @ \cup {"review"}])
    /\ timers' = NotificationTimer(timers)
    /\ UNCHANGED <<clientProfile, storage, uploadedDocuments, reviewResults, usageCount,
                   session, analysis, response, channel, clock>>

\* downloadReport: the click on the Download Report button that displayReport
\* renders with the report
DownloadReport ==
    /\ ui.reportContent.t = "rendered"
    /\ ui' = showNotification("PDF generation would be implemented here", ui)
    /\ timers' = NotificationTimer(timers)
    /\ UNCHANGED <<clientProfile, storage, uploadedDocuments, reviewResults, usageCount,
                   awaiting, session, analysis, response, channel, clock>>

NextSession ==
    \/ \E form \in SessionForms, date \in IsoDates : HandleProfileSubmit(form, date)
    \/ ProfileSaved
    \/ \E tabName \in Tabs : SwitchTab(tabName)
    \/ \E selection \in SessionSelections : HandleFileSelect(selection.id, selection.file)
    \/ ProcessDocuments
    \/ \E now \in IsoDates : ReviewTimerFires(now)
    \/ ReviewSaved
    \/ GenerateReport
    \/ \E now \in IsoDates : ReportTimerFires(now)
    \/ ReportSaved
    \/ DownloadReport
    \/ NotificationTimerFires
    \/ ReopenPopup

SpecSession == InitSession /\ [][NextSession]_vars

\* the storage area when documents are uploaded: the installation's, with the
\* usage count at the limit or below it
UploadStorages ==
    { With(InstalledStorage, "usageCount", Num(maxUsage - headroom)) :
          headroom \in 0..MaxHeadroom }

\* the popup is opened on a markup with flat panes
InitUpload ==
    /\ storage \in UploadStorages
    /\ \E disabled \in BOOLEAN : PopupOpened(Markup("flat", "flat", disabled))
    /\ analysis = NoCall
    /\ response = NoCall
    /\ channel = IdleChannel
    /\ clock = InstallTime

\* the events of a popup with flat panes: showLoading throws in
\* processDocuments and generateReport, so that neither schedules a callback
\* and no report is displayed
NextUpload ==
    \/ \E form \in SessionForms, date \in IsoDates : HandleProfileSubmit(form, date)
    \/ ProfileSaved
    \/ \E tabName \in Tabs : SwitchTab(tabName)
    \/ \E selection \in Selections : HandleFileSelect(selection.id, selection.file)
    \/ ProcessDocuments
    \/ GenerateReport
    \/ NotificationTimerFires
    \/ ReopenPopup

SpecUpload == InitUpload /\ [][NextUpload]_vars

----------------------------------------------------------------------------
(* The daily cleanup of the background script *)

\* the cleanup alarm fires up to MaxDays times
MaxDays == 31

\* alarms.create('dailyCleanup', { periodInMinutes: 1440 })
periodInMinutes == 1440

\* 30 * 24 * 60 * 60 * 1000 milliseconds, in minutes
ThirtyDays == 30 * 24 * 60

\* the characters of the keys of the storage area
KeyChars(key) ==
    CASE key = "usageCount" -> <<"u","s","a","g","e","C","o","u","n","t">>
      [] key = "installDate" -> <<"i","n","s","t","a","l","l","D","a","t","e">>
      [] key = "version" -> <<"v","e","r","s","i","o","n">>
      [] key = "clientProfile" -> <<"c","l","i","e","n","t","P","r","o","f","i","l","e">>
      [] key = "reviewResults" -> <<"r","e","v","i","e","w","R","e","s","u","l","t","s">>

\* String.prototype.startsWith
StartsWith(chars, prefix) ==
    /\ Len(chars) >= Len(prefix)
    /\ SubSeq(chars, 1, Len(prefix)) = prefix

\* ToNumber of the string toISOString gives, as the operator < applies it to
\* a string operand compared with a number: the string is no numeric literal
IsoStringToNumber(iso) == NaN

\* storage[key].timestamp < thirtyDaysAgo on a value that performReview built
TimestampBefore(value, thirtyDaysAgo) ==
    NumLess(IsoStringToNumber(value.timestamp), Num(thirtyDaysAgo))

\* background.js performCleanup, past the storage read: the keys it removes
\* at the time now, store being what the read gave
performCleanup(store, now) ==
    LET thirtyDaysAgo == now - ThirtyDays
    IN { key \in DOMAIN store :
            /\ StartsWith(KeyChars(key), <<"r","e","v","i","e","w","_">>)
            /\ TimestampBefore(store[key], thirtyDaysAgo) }

\* storage.local.remove(key) for each key of keys
StorageRemove(store, keys) == [key \in DOMAIN store \ keys |-> store[key]]

\* the storage areas a closed popup leaves behind: a profile saved, reports
\* counted, and with or without the review that processDocuments saved
CleanupStorages ==
    LET profiles == { analyzeClientProfile(FormData(form, date)) :
                          form \in SessionForms, date \in IsoDates }
        saved == { StorageSet(With(InstalledStorage, "usageCount", Num(count)),
                              [clientProfile |-> profile]) :
                       profile \in profiles, count \in 0..MaxHeadroom }
    IN saved \cup { StorageSet(store, [reviewResults |->
                                         performReview(store.clientProfile, date)]) :
                        store \in saved, date \in IsoDates }

\* the browser when the review has just been saved, the popup opened on it
InitCleanup ==
    /\ storage \in CleanupStorages
    /\ PopupOpened(SpareMarkup)
    /\ analysis = NoCall
    /\ response = NoCall
    /\ channel = IdleChannel
    /\ clock = InstallTime

\* the alarm 'dailyCleanup' fires, a period after it was created or fired
\* last: the listener runs performCleanup, which asks for the whole storage
\* area and returns to the event loop. The read of the alarm before has
\* returned by then
DailyCleanup ==
    /\ clock < InstallTime + MaxDays * periodInMinutes
    /\ channel.cleanup = <<>>
    /\ clock' = clock + periodInMinutes
    /\ channel' = [channel EXCEPT !.cleanup = Append(@, storage)]
    /\ UNCHANGED <<clientProfile, storage, ui, analysis, response>>
    /\ UNCHANGED reviewVars

\* the storage read of performCleanup returns: the old reviews among the keys
\* read are removed from the storage area
CleanupReadReturns ==
    /\ channel.cleanup # <<>>
    /\ channel' = [channel EXCEPT !.cleanup = Tail(@)]
    /\ storage' = StorageRemove(storage, performCleanup(Head(channel.cleanup), clock))
    /\ UNCHANGED <<clientProfile, ui, analysis, response, clock>>
    /\ UNCHANGED reviewVars

NextCleanup == DailyCleanup \/ CleanupReadReturns

SpecCleanup == InitCleanup /\ [][NextCleanup]_vars

----------------------------------------------------------------------------
(* Claims on the usage limit and the usage count *)

\* C18: usageCount, in the popup and in storage, never exceeds 99, however
\* generateReport invocations and their delayed callbacks interleave; no
\* report is finalized once 99 reports are counted
C18_UsageLimit ==
    /\ ~Exceeds(usageCount, 99)
    /\ ~Exceeds(Get(storage, "usageCount"), 99)

\* the count after the reports this session has finalized
CountedThisSession == Add(session.loaded, Num(session.finalized))

\* C19: every finalized report raises usageCount by exactly 1 and the new
\* value is saved; no operation of the popup lowers the count in the popup or
\* in storage; the saved count is the count loaded when the session started
\* plus the reports finalized since, and loadData of a later session reads
\* the saved count back
C19_UsageCountPersisted ==
    /\ [](/\ usageCount = CountedThisSession
          /\ Get(storage, "usageCount") = CountedThisSession
          /\ session.loaded = session.stored)
    /\ [][/\ ~Lt(usageCount', usageCount)
          /\ ~Lt(Get(storage', "usageCount"), Get(storage, "usageCount"))
          /\ (session'.finalized = session.finalized + 1)
                 => /\ usageCount' = Add(usageCount, Num(1))
                    /\ Get(storage', "usageCount") = usageCount']_vars

\* a session that loaded the count an earlier session saved with the report
\* it finalized
C19_Witness ==
    /\ session.loaded = Num(99)
    /\ session.stored = Num(99)
    /\ session.finalized = 0
    /\ usageCount = Num(99)
    /\ Get(storage, "usageCount") = Num(99)
    /\ ui.usageBadge = Num(99)

----------------------------------------------------------------------------
(* Claims on the review *)

SectionKeys(review) == [i \in DOMAIN review.sections |-> review.sections[i].key]

\* C20: the review performReview builds holds the sections structural
\* validation, P&L review, ratio analysis and compliance status in that order,
\* with the GST reconciliation section between ratio analysis and compliance
\* status exactly when the profile's gstStatus is 'registered', that is when
\* its GST compliance flag is true
C20_ReviewSections ==
    [][((\E now \in IsoDates : ReviewTimerFires(now)) /\ clientProfile # Null)
          => /\ SectionKeys(reviewResults')
                    = (IF clientProfile.gstStatus = "registered"
                       THEN <<"structuralValidation", "profitLossReview", "ratioAnalysis",
                              "gstReview", "compliance">>
                       ELSE <<"structuralValidation", "profitLossReview", "ratioAnalysis",
                              "compliance">>)
             /\ (clientProfile.gstStatus = "registered")
                    <=> Truthy(clientProfile.complianceRequirements.gst)]_vars

\* the review of a GST-registered client, saved and shown
C20_Witness ==
    /\ clientProfile # Null
    /\ clientProfile.gstStatus = "registered"
    /\ reviewResults # Null
    /\ SectionKeys(reviewResults)
           = <<"structuralValidation", "profitLossReview", "ratioAnalysis",
               "gstReview", "compliance">>
    /\ Get(storage, "reviewResults") = reviewResults
    /\ ui.reviewContent = Rendered(reviewResults)
    /\ ui.activeTab = "review"

----------------------------------------------------------------------------
(* Claims on the valid flag of the validators *)

\* C24: the result of validateBalanceSheet, validateProfitLoss and
\* validateTrialBalance has valid = false exactly when its errors list is
\* not empty
C24_ValidIffNoErrors ==
    (Replied /\ HasValidatedType(Document) /\ response.reply.success)
        => (response.reply.result.valid = Bool(FALSE)
                <=> response.reply.result.errors # <<>>)

----------------------------------------------------------------------------
(* Claims on the compliance section of the review *)

\* the items of the section of review.sections stored under key
RECURSIVE ItemsUnder(_, _)
ItemsUnder(sections, key) ==
    IF sections = <<>> THEN <<>>
    ELSE IF Head(sections).key = key THEN Head(sections).section.items
    ELSE ItemsUnder(Tail(sections), key)

CountOfType(items, type) == Cardinality({i \in DOMAIN items : items[i].type = type})

\* the compliance flags of the profile that are true, among incomeTax, gst,
\* tds and mca
ActiveFlags(profile) ==
    {f \in {"incomeTax", "gst", "tds", "mca"} :
        Truthy(Get(profile.complianceRequirements, f))}

\* C21: the Compliance Status section of the review holds one normal item
\* for each of the flags incomeTax, gst, tds, mca that is true for the profile,
\* and one clarification item on audit when the profile's auditApplicable is
\* true, none when it is false
C21_ComplianceFindings ==
    [][((\E now \in IsoDates : ReviewTimerFires(now)) /\ clientProfile # Null)
          => LET items == ItemsUnder(reviewResults'.sections, "compliance")
             IN /\ CountOfType(items, "normal") = Cardinality(ActiveFlags(clientProfile))
                /\ CountOfType(items, "clarification")
                       = (IF Truthy(Get(clientProfile, "auditApplicable")) THEN 1 ELSE 0)
                /\ Len(items) = CountOfType(items, "normal")
                                + CountOfType(items, "clarification")]_vars

----------------------------------------------------------------------------
(* Claims on the report *)

SectionTitles(report) == [i \in DOMAIN report.sections |-> report.sections[i].title]

\* the texts of the items of severity type, through the sections of a review
RECURSIVE FindingsOfType(_, _)
FindingsOfType(sections, type) ==
    IF sections = <<>> THEN <<>>
    ELSE LET items == SelectSeq(Head(sections).section.items,
                                LAMBDA item : item.type = type)
         IN [i \in DOMAIN items |-> items[i].text]
            \o FindingsOfType(Tail(sections), type)

\* C22: the report, as the report pane shows it, has the six sections
\* Executive Summary, Key Observations, Items Requiring Clarification,
\* High-Risk Areas, Compliance Status, Next Steps in that order and a
\* disclaimer that is not empty, and its third and fourth sections list exactly
\* the clarification and the high-risk findings of the review the popup holds
C22_ReportFromReview ==
    [][((\E now \in IsoDates : ReportTimerFires(now))
            /\ clientProfile # Null /\ reviewResults # Null
            /\ ui.reportContent # Removed)
          => LET report == ui'.reportContent.value
             IN /\ SectionTitles(report)
                       = <<"1. Executive Summary", "2. Key Observations",
                           "3. Items Requiring Clarification", "4. High-Risk Areas",
                           "5. Compliance Status", "6. Next Steps">>
                /\ report.disclaimer # ""
                /\ report.sections[3].points
                       = FindingsOfType(reviewResults.sections, "clarification")
                /\ report.sections[4].points
                       = FindingsOfType(reviewResults.sections, "high-risk")]_vars

----------------------------------------------------------------------------
(* Claims on the Process Documents button *)

AllMandatoryUploaded ==
    \A i \in DOMAIN MandatoryDocuments : MandatoryDocuments[i] \in DOMAIN uploadedDocuments

\* C25: after every file selection the Process Documents button is enabled
\* exactly when uploadedDocuments holds all three mandatory documents; while
\* the popup stays open no entry of uploadedDocuments is removed, by a
\* selection of a conditional document or by a profile submission either, and
\* the button, once enabled, stays enabled
C25_ProcessEnabled ==
    /\ [](ui.processBtn # "markup"
             => (ui.processBtn = "enabled" <=> AllMandatoryUploaded))
    /\ [][\/ /\ DOMAIN uploadedDocuments \subseteq DOMAIN uploadedDocuments'
             /\ ui.processBtn = "enabled" => ui'.processBtn = "enabled"
             /\ uploadedDocuments' # uploadedDocuments => ui'.processBtn # "markup"
          \/ ReopenPopup]_vars

\* all three mandatory documents and a conditional one selected, the balance
\* sheet in its revised file, and the profile since replaced by one without
\* conditional documents: the button is enabled
C25_Witness ==
    /\ ui.processBtn = "enabled"
    /\ AllMandatoryUploaded
    /\ "gstReturns" \in DOMAIN uploadedDocuments
    /\ uploadedDocuments.balanceSheet = RevisedFile
    /\ clientProfile # Null
    /\ clientProfile.gstStatus = "unregistered"


\* the time of an ISO date of IsoDates, in minutes since 1970-01-01T00:00:00Z
MinutesOf(iso) == IF iso = "2025-04-01T00:00:00.000Z" THEN 20179 * 24 * 60 ELSE 0

\* the storage area holds a review saved more than thirty days before time
HoldsOldReview(store, time) ==
    /\ "reviewResults" \in DOMAIN store
    /\ time - MinutesOf(store.reviewResults.timestamp) > ThirtyDays

\* C23: a daily cleanup that runs when the stored review is more than thirty
\* days old has removed it from the storage area when performCleanup is
\* through; it leaves a younger review, the client profile and the usage count
\* as they are
C23_OldReviewRemoved ==
    [][CleanupReadReturns
          => /\ HoldsOldReview(storage, clock) => "reviewResults" \notin DOMAIN storage'
             /\ ~HoldsOldReview(storage, clock)
                    => Get(storage', "reviewResults") = Get(storage, "reviewResults")
             /\ Get(storage', "clientProfile") = Get(storage, "clientProfile")
             /\ Get(storage', "usageCount") = Get(storage, "usageCount")]_vars

====
